---- MODULE Spec2Model ----
(***************************************************************************)
(* Model of generate_ventia_ppt.js: the four input files under inputs/ are  *)
(* read and unwrapped, folded into one report model by normalize(), and the *)
(* aggregate status is derived by ragFromRisks().                           *)
(*                                                                          *)
(* JavaScript values are tagged records; a JavaScript string is a sequence  *)
(* of one-character strings, so that toLowerCase, trim and concatenation    *)
(* are computed character by character.                                     *)
(***************************************************************************)
EXTENDS Integers, Sequences, FiniteSets, TLC

(***************************************************************************)
(* Bounds of the explored inputs.                                           *)
(***************************************************************************)
\* longest collection of the "variety" inputs (items all differ)
MaxItems == 2
\* longest chat / CRM collection of the "volume" inputs (copies of one item)
MaxCopies == 12
\* longest document / search collection of the "volume" inputs
MaxDocCopies == 1
\* longest risk list handed to ragFromRisks on its own
MaxRiskList == 3

(***************************************************************************)
(* JavaScript values.                                                       *)
(***************************************************************************)
Undefined == [t |-> "undefined"]
Null == [t |-> "null"]
Str(s) == [t |-> "str", s |-> s]
Num(n) == [t |-> "num", n |-> n]
Arr(a) == [t |-> "arr", a |-> a]
Obj(f) == [t |-> "obj", f |-> f]
\* the outcome of an expression that throws a TypeError
Throw == [t |-> "throw"]
\* the object literal {}
EmptyObj == Obj([k \in {} |-> Undefined])
\* the string literal ""
EmptyStr == Str(<<>>)

\* ToBoolean, as applied by ||, && and if
Truthy(v) ==
  CASE v.t = "undefined" -> FALSE
    [] v.t = "null" -> FALSE
    [] v.t = "str" -> v.s # <<>>
    [] v.t = "num" -> v.n # 0
    [] OTHER -> TRUE

\* a || b
Or(a, b) == IF Truthy(a) THEN a ELSE b

\* typeof v === "object"
TypeofObject(v) == v.t \in {"obj", "arr", "null"}

\* the property access o.k
Get(o, k) ==
  CASE o.t \in {"undefined", "null"} -> Throw
    [] o.t = "obj" -> IF k \in DOMAIN o.f THEN o.f[k] ELSE Undefined
    [] OTHER -> Undefined

UpperChars == <<"A","B","C","D","E","F","G","H","I","J","K","L","M",
                "N","O","P","Q","R","S","T","U","V","W","X","Y","Z">>
LowerChars == <<"a","b","c","d","e","f","g","h","i","j","k","l","m",
                "n","o","p","q","r","s","t","u","v","w","x","y","z">>

LowerChar(c) ==
  IF \E i \in 1..26 : UpperChars[i] = c
  THEN LowerChars[CHOOSE i \in 1..26 : UpperChars[i] = c]
  ELSE c

\* v.toLowerCase(): a TypeError unless v is a string
ToLowerCase(v) ==
  IF v.t = "str" THEN Str([i \in 1..Len(v.s) |-> LowerChar(v.s[i])]) ELSE Throw

RECURSIVE TrimLeft(_)
TrimLeft(s) == IF s # <<>> /\ Head(s) = " " THEN TrimLeft(Tail(s)) ELSE s

RECURSIVE TrimRight(_)
TrimRight(s) ==
  IF s # <<>> /\ s[Len(s)] = " " THEN TrimRight(SubSeq(s, 1, Len(s) - 1)) ELSE s

\* s.trim() on the characters of a string
Trim(s) == TrimRight(TrimLeft(s))

Digits == <<"0","1","2","3","4","5","6","7","8","9">>

RECURSIVE NatToChars(_)
NatToChars(n) ==
  IF n < 10 THEN <<Digits[n + 1]>> ELSE NatToChars(n \div 10) \o <<Digits[(n % 10) + 1]>>

\* the characters a value contributes to a template literal or to string +
ToChars(v) ==
  CASE v.t = "str" -> v.s
    [] v.t = "num" -> NatToChars(v.n)
    [] v.t = "null" -> <<"n","u","l","l">>
    [] v.t = "undefined" -> <<"u","n","d","e","f","i","n","e","d">>
    [] OTHER -> <<"[","o","b","j","e","c","t"," ","O","b","j","e","c","t","]">>

\* Slice keeping one element too many
SliceOffByOne(s, n) == SubSeq(s, 1, IF Len(s) < n + 1 THEN Len(s) ELSE n + 1)

\* first n elements: Array.prototype.slice(0, n)
Slice(s, n) == SubSeq(s, 1, IF Len(s) < n THEN Len(s) ELSE n)

(***************************************************************************)
(* String literals of the program.                                          *)
(***************************************************************************)
LitSlackUpdate == <<"S","l","a","c","k"," ","u","p","d","a","t","e">>
LitUnknown == <<"U","n","k","n","o","w","n">>
LitInProgress == <<"I","n"," ","P","r","o","g","r","e","s","s">>
LitSlackRisk == <<"S","l","a","c","k"," ","r","i","s","k">>
LitHigh == <<"H","i","g","h">>
LitMed == <<"M","e","d">>
LitMitigationTBD == <<"M","i","t","i","g","a","t","i","o","n"," ","T","B","D">>
\* the owner placeholder of the action items used for the risks as well
LitOwnerAsUnknown == LitUnknown

LitOwnerTBD == <<"O","w","n","e","r"," ","T","B","D">>
LitAccount == <<"A","c","c","o","u","n","t">>
LitOpportunity == <<"O","p","p","o","r","t","u","n","i","t","y">>
LitDocumentUpdate == <<"D","o","c","u","m","e","n","t"," ","u","p","d","a","t","e">>
LitKnowledgeSignal == <<"K","n","o","w","l","e","d","g","e"," ","s","i","g","n","a","l">>
LitSep == <<" ","-"," ">>
LitLowerHigh == <<"h","i","g","h">>
LitLowerCritical == <<"c","r","i","t","i","c","a","l">>

(***************************************************************************)
(* Reading and unwrapping one input file.                                   *)
(***************************************************************************)
Sources == {"slack", "salesforce", "gdrive", "glean"}

\* the well-known collection key of each source
CollectionKey(src) ==
  CASE src = "slack" -> "messages"
    [] src = "salesforce" -> "opportunities"
    [] src = "gdrive" -> "documents"
    [] src = "glean" -> "insights"

\* the fallback handed to readJson for each source: { <key>: [] }
Fallback(src) ==
  CASE src = "slack" -> Obj([messages |-> Arr(<<>>)])
    [] src = "salesforce" -> Obj([opportunities |-> Arr(<<>>)])
    [] src = "gdrive" -> Obj([documents |-> Arr(<<>>)])
    [] src = "glean" -> Obj([insights |-> Arr(<<>>)])

\* a file is absent, holds text JSON.parse rejects, or holds a JSON value
AbsentFile == [kind |-> "absent"]
GarbageFile == [kind |-> "garbage"]
JsonFile(v) == [kind |-> "json", value |-> v]

\* readJson whose catch block returns nothing
readJsonNoFallback(file, fallback) ==
  IF file.kind = "json" THEN file.value ELSE Undefined

readJson(file, fallback) ==
  IF file.kind = "json" THEN file.value ELSE fallback

extractData(payload) ==
  IF /\ Truthy(payload)
     /\ TypeofObject(payload)
     /\ Truthy(Get(payload, "data"))
     /\ TypeofObject(Get(payload, "data"))
  THEN Get(payload, "data")
  ELSE Or(payload, EmptyObj)

\* one of the four const declarations at the head of normalize
ReadSource(files, src) == extractData(readJson(files[src], Fallback(src)))

(***************************************************************************)
(* The four forEach callbacks of normalize.  acc holds the four arrays the  *)
(* callbacks push to; a callback that throws yields Throw.                  *)
(***************************************************************************)
EmptyAcc == [actions |-> <<>>, risks |-> <<>>, accomplishments |-> <<>>, nextSteps |-> <<>>]

\* the severity test without toLowerCase()
IsHighOrCriticalCaseSensitive(sev) ==
  LET raw == Or(sev, EmptyStr)
  IN IF raw.t # "str" THEN Throw
     ELSE IF raw = Str(LitLowerHigh) \/ raw = Str(LitLowerCritical) THEN Str(<<"y">>) ELSE EmptyStr

\* (x || "").toLowerCase() === "high" || ... === "critical"
IsHighOrCritical(sev) ==
  LET lc == ToLowerCase(Or(sev, EmptyStr))
  IN IF lc = Throw THEN Throw
     ELSE IF lc = Str(LitLowerHigh) \/ lc = Str(LitLowerCritical) THEN Str(<<"y">>) ELSE EmptyStr

\* push onto arr when cond holds
PushIf(cond, arr, v) == IF cond THEN Append(arr, v) ELSE arr

SlackCallback(acc, m) ==
  IF Get(m, "title") = Throw THEN Throw
  ELSE
    LET gate == IsHighOrCritical(Get(m, "impact"))
    IN IF gate = Throw THEN Throw
       ELSE
         [actions |-> Append(acc.actions,
              [description |-> Or(Get(m, "title"), Str(LitSlackUpdate)),
               owner |-> Or(Get(m, "owner"), Str(LitUnknown)),
               status |-> Or(Get(m, "status"), Str(LitInProgress)),
               comments |-> Or(Get(m, "action"), EmptyStr)]),
          accomplishments |-> Append(acc.accomplishments,
              Or(Get(m, "detail"), Or(Get(m, "title"), Str(LitSlackUpdate)))),
          risks |-> PushIf(Truthy(gate), acc.risks,
              [description |-> Str(Trim(ToChars(Or(Get(m, "title"), Str(LitSlackRisk)))
                                        \o LitSep \o ToChars(Or(Get(m, "detail"), EmptyStr)))),
               impact |-> Or(Get(m, "impact"), Str(LitHigh)),
               probability |-> Str(LitMed),
               action |-> Str(ToChars(Or(Get(m, "action"), Str(LitMitigationTBD)))
                              \o LitSep \o ToChars(Or(Get(m, "owner"), Str(LitOwnerTBD)))),
               status |-> Or(Get(m, "status"), Str(LitInProgress))]),
          nextSteps |-> PushIf(Truthy(Get(m, "action")), acc.nextSteps, Get(m, "action"))]

SalesforceCallback(acc, o) ==
  IF Get(o, "account") = Throw THEN Throw
  ELSE
    LET gate == IsHighOrCritical(Get(o, "risk"))
    IN IF gate = Throw THEN Throw
       ELSE
         [actions |-> Append(acc.actions,
              [description |-> Str(ToChars(Or(Get(o, "account"), Str(LitAccount)))
                                   \o LitSep \o ToChars(Or(Get(o, "name"), Str(LitOpportunity)))),
               owner |-> Or(Get(o, "owner"), Str(LitUnknown)),
               status |-> Or(Get(o, "stage"), Str(LitInProgress)),
               comments |-> Or(Get(o, "next_step"), EmptyStr)]),
          accomplishments |-> PushIf(Truthy(Get(o, "detail")), acc.accomplishments, Get(o, "detail")),
          risks |-> PushIf(Truthy(gate), acc.risks,
              [description |-> Str(Trim(ToChars(Or(Get(o, "name"), Str(LitOpportunity)))
                                        \o LitSep \o ToChars(Or(Get(o, "detail"), EmptyStr)))),
               impact |-> Or(Get(o, "risk"), Str(LitHigh)),
               probability |-> Str(LitMed),
               action |-> Str(ToChars(Or(Get(o, "next_step"), Str(LitMitigationTBD)))
                              \o LitSep \o ToChars(Or(Get(o, "owner"), Str(LitOwnerTBD)))),
               status |-> Or(Get(o, "stage"), Str(LitInProgress))]),
          nextSteps |-> PushIf(Truthy(Get(o, "next_step")), acc.nextSteps, Get(o, "next_step"))]

\* the document callback falling back to the title when there is no summary
GdriveCallbackTitleFallback(acc, d) ==
  IF Get(d, "title") = Throw THEN Throw
  ELSE
    [actions |-> Append(acc.actions,
         [description |-> Or(Get(d, "title"), Str(LitDocumentUpdate)),
          owner |-> Or(Get(d, "owner"), Str(LitUnknown)),
          status |-> Or(Get(d, "state"), Str(LitInProgress)),
          comments |-> Or(Get(d, "required_action"), EmptyStr)]),
     accomplishments |-> PushIf(Truthy(Or(Get(d, "summary"), Get(d, "title"))), acc.accomplishments,
                                Or(Get(d, "summary"), Get(d, "title"))),
     risks |-> acc.risks,
     nextSteps |-> PushIf(Truthy(Get(d, "required_action")), acc.nextSteps, Get(d, "required_action"))]

GdriveCallback(acc, d) ==
  IF Get(d, "title") = Throw THEN Throw
  ELSE
    [actions |-> Append(acc.actions,
         [description |-> Or(Get(d, "title"), Str(LitDocumentUpdate)),
          owner |-> Or(Get(d, "owner"), Str(LitUnknown)),
          status |-> Or(Get(d, "state"), Str(LitInProgress)),
          comments |-> Or(Get(d, "required_action"), EmptyStr)]),
     accomplishments |-> PushIf(Truthy(Get(d, "summary")), acc.accomplishments, Get(d, "summary")),
     risks |-> acc.risks,
     nextSteps |-> PushIf(Truthy(Get(d, "required_action")), acc.nextSteps, Get(d, "required_action"))]

GleanCallback(acc, i) ==
  IF Get(i, "topic") = Throw THEN Throw
  ELSE
    [actions |-> Append(acc.actions,
         [description |-> Or(Get(i, "topic"), Str(LitKnowledgeSignal)),
          owner |-> Or(Get(i, "owner"), Str(LitUnknown)),
          status |-> Or(Get(i, "state"), Str(LitInProgress)),
          comments |-> Or(Get(i, "follow_up"), EmptyStr)]),
     accomplishments |-> PushIf(Truthy(Get(i, "summary")), acc.accomplishments, Get(i, "summary")),
     risks |-> acc.risks,
     nextSteps |-> PushIf(Truthy(Get(i, "follow_up")), acc.nextSteps, Get(i, "follow_up"))]

\* the callbacks returning early once twelve actions are collected
CallbackStoppingAtCap(src, acc, item) ==
  IF Len(acc.actions) >= 12 THEN acc
  ELSE CASE src = "slack" -> SlackCallback(acc, item)
         [] src = "salesforce" -> SalesforceCallback(acc, item)
         [] src = "gdrive" -> GdriveCallback(acc, item)
         [] src = "glean" -> GleanCallback(acc, item)

Callback(src, acc, item) ==
  CASE src = "slack" -> SlackCallback(acc, item)
    [] src = "salesforce" -> SalesforceCallback(acc, item)
    [] src = "gdrive" -> GdriveCallback(acc, item)
    [] src = "glean" -> GleanCallback(acc, item)

\* Array.prototype.forEach over items, stopping at the first callback that throws
RECURSIVE ForEach(_, _, _)
ForEach(src, items, acc) ==
  IF acc = Throw \/ items = <<>> THEN acc
  ELSE ForEach(src, Tail(items), Callback(src, acc, Head(items)))

\* the loop visiting the collection last item first
LoopReversed(src, obj, acc) ==
  LET coll == Or(Get(obj, CollectionKey(src)), Arr(<<>>))
  IN IF coll.t = "arr"
     THEN ForEach(src, [k \in 1..Len(coll.a) |-> coll.a[Len(coll.a) + 1 - k]], acc)
     ELSE Throw

\* (obj.<key> || []).forEach(callback): a TypeError when the value is truthy
\* but not an array
Loop(src, obj, acc) ==
  LET coll == Or(Get(obj, CollectionKey(src)), Arr(<<>>))
  IN IF coll.t = "arr" THEN ForEach(src, coll.a, acc) ELSE Throw

\* the returned object with the next steps capped like the actions
TruncateNextStepsTwelve(acc) ==
  [actions |-> Slice(acc.actions, 12),
   risks |-> Slice(acc.risks, 10),
   accomplishments |-> Slice(acc.accomplishments, 8),
   nextSteps |-> Slice(acc.nextSteps, 12)]

\* the object normalize returns
Truncate(acc) ==
  [actions |-> Slice(acc.actions, 12),
   risks |-> Slice(acc.risks, 10),
   accomplishments |-> Slice(acc.accomplishments, 8),
   nextSteps |-> Slice(acc.nextSteps, 8)]

\* Array.prototype.some over the impacts: "true", "false", or "throw" when
\* toLowerCase is applied to a truthy value that is not a string
RECURSIVE SomeImpact(_, _)
SomeImpact(rs, target) ==
  IF rs = <<>> THEN "false"
  ELSE LET lc == ToLowerCase(Or(Head(rs).impact, EmptyStr))
       IN IF lc = Throw THEN "throw"
          ELSE IF lc = Str(target) THEN "true"
          ELSE SomeImpact(Tail(rs), target)

\* the classifier testing "high" before "critical"
ragFromRisksHighFirst(rs) ==
  LET high == SomeImpact(rs, LitLowerHigh)
  IN IF high = "throw" THEN "Throw"
     ELSE IF high = "true" THEN "Amber"
     ELSE LET crit == SomeImpact(rs, LitLowerCritical)
          IN IF crit = "throw" THEN "Throw"
             ELSE IF crit = "true" THEN "Red"
             ELSE "Green"

ragFromRisks(rs) ==
  LET crit == SomeImpact(rs, LitLowerCritical)
  IN IF crit = "throw" THEN "Throw"
     ELSE IF crit = "true" THEN "Red"
     ELSE LET high == SomeImpact(rs, LitLowerHigh)
          IN IF high = "throw" THEN "Throw"
             ELSE IF high = "true" THEN "Amber"
             ELSE "Green"

(***************************************************************************)
(* The explored inputs.  Items follow the documented source schemas, with   *)
(* fields left out, severities in several letter cases, a severity that is  *)
(* a number, an item that is null and an item that is a bare string.        *)
(***************************************************************************)
mFull == Obj([title |-> Str(<<"M","1">>), owner |-> Str(<<"A","l">>), status |-> Str(<<"O","k">>), impact |-> Str(<<"C","r","i","t","i","c","a","l">>), detail |-> Str(<<"D","1">>), action |-> Str(<<"A","1">>)])
mHigh == Obj([title |-> Str(<<"M","2">>), impact |-> Str(<<"H","I","G","H">>)])
mLow == Obj([title |-> Str(<<"M","3">>), impact |-> Str(<<"L","o","w">>), detail |-> Str(<<"D","3">>), action |-> Str(<<>>)])
mMedium == Obj([impact |-> Str(<<"M","e","d","i","u","m">>), detail |-> Str(<<"D","4">>), action |-> Str(<<"A","4">>)])
mNumImpact == Obj([title |-> Str(<<"M","5">>), impact |-> Num(3)])
oFull == Obj([account |-> Str(<<"A","c">>), name |-> Str(<<"O","1">>), owner |-> Str(<<"B","o">>), stage |-> Str(<<"W","o","n">>), risk |-> Str(<<"h","i","g","h">>), detail |-> Str(<<"E","1">>), next_step |-> Str(<<"N","1">>)])
oCrit == Obj([name |-> Str(<<"O","2">>), risk |-> Str(<<"c","R","i","T","i","C","a","L">>)])
oLow == Obj([account |-> Str(<<"A","d">>), risk |-> Str(<<"L","o","w">>), detail |-> Str(<<"E","3">>)])
oNameOnly == Obj([name |-> Str(<<"O","4">>)])
oNumRisk == Obj([name |-> Str(<<"O","5">>), risk |-> Num(3)])
dFull == Obj([title |-> Str(<<"T","1">>), owner |-> Str(<<"C","y">>), state |-> Str(<<"N","e","w">>), priority |-> Str(<<"C","r","i","t","i","c","a","l">>), summary |-> Str(<<"S","1">>), required_action |-> Str(<<"R","1">>)])
dTitleOnly == Obj([title |-> Str(<<"T","2">>), priority |-> Str(<<"H","i","g","h">>)])
dSummary == Obj([summary |-> Str(<<"S","3">>)])
iFull == Obj([topic |-> Str(<<"K","1">>), owner |-> Str(<<"D","i">>), state |-> Str(<<"O","l","d">>), priority |-> Str(<<"H","i","g","h">>), summary |-> Str(<<"U","1">>), follow_up |-> Str(<<"F","1">>)])
iTopicOnly == Obj([topic |-> Str(<<"K","2">>), priority |-> Str(<<"c","r","i","t","i","c","a","l">>)])
iFollow == Obj([follow_up |-> Str(<<"F","3">>)])

\* an item that is a JSON string, not a record
StringItem == Str(<<"x">>)

\* the items tried for each source, and the fully populated one among them
Items(src) ==
  CASE src = "slack" -> {mFull, mHigh, mLow, mMedium, mNumImpact, EmptyObj, Null, StringItem}
    [] src = "salesforce" -> {oFull, oCrit, oLow, oNameOnly, oNumRisk, EmptyObj, Null}
    [] src = "gdrive" -> {dFull, dTitleOnly, dSummary, EmptyObj, Null}
    [] src = "glean" -> {iFull, iTopicOnly, iFollow, EmptyObj, Null}

FullItem(src) ==
  CASE src = "slack" -> mFull
    [] src = "salesforce" -> oFull
    [] src = "gdrive" -> dFull
    [] src = "glean" -> iFull

\* all sequences over S of length at most n
SeqsUpTo(S, n) == UNION {[1..k -> S] : k \in 0..n}

\* n copies of item
Repeat(item, n) == [k \in 1..n |-> item]

\* the payload { <key>: coll }
Keyed(src, coll) == Obj(CollectionKey(src) :> coll)

\* the payload { data: inner, <key>: coll }
Wrapped(src, inner, coll) == Obj(("data" :> inner) @@ (CollectionKey(src) :> coll))

\* a well-formed file: the collection key holds an array of items
ListFile(src, items) == JsonFile(Keyed(src, Arr(items)))

\* files whose payload is missing, unparsable, not a record, lacks the
\* collection key or holds something other than an array under it
OddFiles(src) ==
  { AbsentFile, GarbageFile,
    JsonFile(Null), JsonFile(Num(7)), JsonFile(Str(<<"x">>)), JsonFile(Arr(<<FullItem(src)>>)),
    JsonFile(EmptyObj),
    JsonFile(Keyed(src, Null)), JsonFile(Keyed(src, Num(0))), JsonFile(Keyed(src, EmptyStr)),
    JsonFile(Keyed(src, Str(<<"a","b">>))), JsonFile(Keyed(src, Num(5))),
    JsonFile(Keyed(src, FullItem(src))) }

\* files whose payload has a data member
WrappedFiles(src) ==
  { JsonFile(Obj("data" :> Keyed(src, Arr(<<FullItem(src)>>)))),
    JsonFile(Wrapped(src, Keyed(src, Arr(<<FullItem(src)>>)), Arr(<<EmptyObj>>))),
    JsonFile(Wrapped(src, Keyed(src, Arr(<<>>)), Arr(<<FullItem(src)>>))),
    JsonFile(Wrapped(src, EmptyObj, Arr(<<FullItem(src)>>))),
    JsonFile(Wrapped(src, Null, Arr(<<FullItem(src)>>))),
    JsonFile(Wrapped(src, Str(<<"x">>), Arr(<<FullItem(src)>>))),
    JsonFile(Wrapped(src, Arr(<<>>), Arr(<<FullItem(src)>>))) }

VarietyFiles(src) ==
  OddFiles(src) \cup WrappedFiles(src)
    \cup {ListFile(src, items) : items \in SeqsUpTo(Items(src), MaxItems)}

\* the file of a source that is not the one being varied
BasicFile(src, n) == ListFile(src, Repeat(FullItem(src), n))

\* one source takes any of its variety files, the others hold zero or one
\* fully populated item
VarietyInputs ==
  UNION { { [s \in Sources |-> IF s = focus THEN v ELSE BasicFile(s, b[s])] :
              v \in VarietyFiles(focus), b \in [Sources -> 0..1] } :
          focus \in Sources }

VolumeFiles(src, max) ==
  {ListFile(src, Repeat(item, n)) : item \in {FullItem(src), EmptyObj}, n \in 0..max}

\* every source holds copies of its fully populated item or of the empty record
VolumeInputs ==
  { [slack |-> a, salesforce |-> b, gdrive |-> c, glean |-> d] :
      a \in VolumeFiles("slack", MaxCopies), b \in VolumeFiles("salesforce", MaxCopies),
      c \in VolumeFiles("gdrive", MaxDocCopies), d \in VolumeFiles("glean", MaxDocCopies) }

(***************************************************************************)
(* The run of the script as a state machine: pc is the statement of         *)
(* normalize() / run() about to execute.                                    *)
(***************************************************************************)
VARIABLES
  files,            \* the content of inputs/<source>.json
  pc,
  slack, salesforce, gdrive, glean,              \* normalize's unwrapped payloads
  actions, risks, accomplishments, nextSteps,    \* normalize's accumulators
  data,             \* run's const data = normalize()
  overall,          \* run's const overall = ragFromRisks(data.risks)
  parsed,           \* run's const parsed = parseArgs(...): period, customer, engagement
  today,            \* the system clock: days elapsed since the first day explored
  outputsExists,    \* whether the outputs/ directory exists
  reportDate,       \* run's const reportDate = dateStamp()
  reportDateDisplay,    \* run's const reportDateDisplay = new Date().toLocaleDateString(...)
  slideNo,          \* run's let slideNo
  slides,           \* the slides added to pptx so far
  outputName,       \* run's const outputName
  writes,           \* the pptx.writeFile calls this process has started
  log,              \* the console lines this process has printed
  exitCode,         \* process.exitCode
  runNo,            \* which invocation of the script this is
  previous,         \* what the invocation before this one produced
  outputFiles,      \* the names of the files in outputs/
  arg, result,      \* a function applied on its own, and what it returned
  argv              \* process.argv.slice(2)

\* the state of run() past the classification, and of its environment
runVars == <<parsed, today, outputsExists, reportDate, reportDateDisplay, slideNo, slides,
             outputName, writes, log, exitCode, runNo, previous, outputFiles, arg, result, argv>>

vars == <<files, pc, slack, salesforce, gdrive, glean,
          actions, risks, accomplishments, nextSteps, data, overall, runVars>>

(***************************************************************************)
(* String literals of run().                                                *)
(***************************************************************************)
LitOf == <<" ","o","f"," ">>
LitPSEngagement == <<" ","-"," ","P","S"," ","E","n","g","a","g","e","m","e","n","t">>
LitWeeklyPrefix == <<"W","e","e","k","l","y"," ","S","t","a","t","u","s"," ","R","e","p","o","r","t"," ","|"," ">>
LitAgenda == <<"A","g","e","n","d","a">>
LitTeams == <<"1",")"," ","T","e","a","m","s">>
LitWeekEnding == <<"W","e","e","k"," ","e","n","d","i","n","g"," ">>
LitStatusUpdates == <<"2",")"," ","S","t","a","t","u","s"," ","U","p","d","a","t","e","s"," ","/"," ","I","s","s","u","e","s",","," ","R","i","s","k","s">>
LitEngagementStatus == <<"E","n","g","a","g","e","m","e","n","t"," ","S","t","a","t","u","s">>
LitRiskIssue == <<"R","i","s","k"," ","&"," ","I","s","s","u","e">>
LitResourcePlan == <<"R","e","s","o","u","r","c","e"," ","P","l","a","n">>
LitPlanTracking == <<"P","l","a","n"," ","T","r","a","c","k","i","n","g">>
LitThankYou == <<"T","h","a","n","k"," ","Y","o","u">>
LitPriorWeek == <<"P","r","i","o","r"," ","w","e","e","k"," ","s","n","a","p","s","h","o","t">>
LitEarlierWeek == <<"E","a","r","l","i","e","r"," ","w","e","e","k"," ","s","n","a","p","s","h","o","t">>
LitNoActions == <<"N","o"," ","a","c","t","i","o","n"," ","i","t","e","m","s"," ","c","a","p","t","u","r","e","d">>
LitNoRisks == <<"N","o"," ","h","i","g","h","-","s","e","v","e","r","i","t","y"," ","r","i","s","k","s"," ","c","a","p","t","u","r","e","d">>
LitDash == <<"-">>
LitRisk == <<"R","i","s","k">>
LitLow == <<"L","o","w">>
LitContinueMonitoring == <<"C","o","n","t","i","n","u","e"," ","m","o","n","i","t","o","r","i","n","g"," ","-"," ","P","M">>
LitOpen == <<"O","p","e","n">>
LitNoAccomplishments == <<"N","o"," ","a","c","c","o","m","p","l","i","s","h","m","e","n","t","s"," ","c","a","p","t","u","r","e","d",".">>
LitNoNextSteps == <<"N","o"," ","n","e","x","t"," ","s","t","e","p","s"," ","c","a","p","t","u","r","e","d",".">>
LitNoPoints == <<"N","o"," ","p","r","i","o","r","i","t","y"," ","d","i","s","c","u","s","s","i","o","n"," ","p","o","i","n","t","s"," ","c","a","p","t","u","r","e","d"," ","f","o","r"," ","t","h","i","s"," ","p","e","r","i","o","d",".">>
LitProjectStatus == <<"P","r","o","j","e","c","t"," ","S","t","a","t","u","s","\n">>
LitOverall == <<"O","v","e","r","a","l","l",":"," ">>
LitCustomer == <<"c","u","s","t","o","m","e","r">>
LitReportSuffix == <<"_","d","a","t","a","b","r","i","c","k","s","_","p","s","_","s","t","a","t","u","s","_","r","e","p","o","r","t","_">>
LitPptx == <<".","p","p","t","x">>
LitGenerated == <<"G","e","n","e","r","a","t","e","d"," ","P","P","T","X",":"," ">>
LitFailed == <<"F","a","i","l","e","d"," ","t","o"," ","g","e","n","e","r","a","t","e"," ","P","P","T","X",":">>
LitDefaultPeriod == <<"C","u","r","r","e","n","t"," ","r","e","p","o","r","t","i","n","g"," ","p","e","r","i","o","d">>
LitVentia == <<"V","e","n","t","i","a">>
LitSupplyChain == <<"S","u","p","p","l","y"," ","C","h","a","i","n">>
LitScope == <<"S","c","o","p","e",":"," ">>
LitSchedule == <<" "," "," ","|"," "," "," ","S","c","h","e","d","u","l","e",":"," ">>
LitMakeItRight == <<" "," "," ","|"," "," "," ","M","a","k","e","-","I","t","-","R","i","g","h","t",":"," ","G","r","e","e","n">>

\* parseArgs' defaults
DefaultArgs ==
  [period |-> Str(LitDefaultPeriod), customer |-> Str(LitVentia), engagement |-> Str(LitSupplyChain)]

\* the value of arg while the script runs
NoArg == [fn |-> "none"]

\* run's locals before their declarations have run, and a fresh process
InitRunLocals ==
  /\ reportDate = Undefined
  /\ reportDateDisplay = Undefined
  /\ slideNo = 0
  /\ slides = <<>>
  /\ outputName = Undefined
  /\ writes = 0
  /\ log = <<>>
  /\ exitCode = 0

\* the locals before their declarations have run
InitLocals ==
  /\ slack = Undefined /\ salesforce = Undefined /\ gdrive = Undefined /\ glean = Undefined
  /\ actions = <<>> /\ risks = <<>> /\ accomplishments = <<>> /\ nextSteps = <<>>
  /\ data = Undefined
  /\ overall = "unset"

\* a process started with the default arguments, outputs/ in place; no
\* earlier invocation and no function applied on its own
DefaultRun ==
  /\ argv = <<>>
  /\ parsed = DefaultArgs
  /\ today = 0
  /\ outputsExists = TRUE
  /\ InitRunLocals
  /\ runNo = 1
  /\ previous = Undefined
  /\ outputFiles = {}

\* no function is being applied on its own
NoFunction == arg = NoArg /\ result = Undefined

Init ==
  /\ \/ files \in VarietyInputs
     \/ files \in VolumeInputs
  /\ pc = "readSlack"
  /\ InitLocals
  /\ DefaultRun
  /\ NoFunction

ReadSlack ==
  /\ pc = "readSlack"
  /\ slack' = ReadSource(files, "slack")
  /\ pc' = "readSalesforce"
  /\ UNCHANGED <<files, salesforce, gdrive, glean, actions, risks, accomplishments, nextSteps, data, overall, runVars>>

ReadSalesforce ==
  /\ pc = "readSalesforce"
  /\ salesforce' = ReadSource(files, "salesforce")
  /\ pc' = "readGdrive"
  /\ UNCHANGED <<files, slack, gdrive, glean, actions, risks, accomplishments, nextSteps, data, overall, runVars>>

ReadGdrive ==
  /\ pc = "readGdrive"
  /\ gdrive' = ReadSource(files, "gdrive")
  /\ pc' = "readGlean"
  /\ UNCHANGED <<files, slack, salesforce, glean, actions, risks, accomplishments, nextSteps, data, overall, runVars>>

ReadGlean ==
  /\ pc = "readGlean"
  /\ glean' = ReadSource(files, "glean")
  /\ pc' = "loopSlack"
  /\ UNCHANGED <<files, slack, salesforce, gdrive, actions, risks, accomplishments, nextSteps, data, overall, runVars>>

\* the accumulators as one record
Acc == [actions |-> actions, risks |-> risks,
        accomplishments |-> accomplishments, nextSteps |-> nextSteps]

\* one forEach statement: either every callback returns and the pushes are
\* kept, or a TypeError escapes normalize and run and the process dies
LoopStep(src, obj, next) ==
  LET r == Loop(src, obj, Acc)
  IN IF r = Throw
     THEN /\ pc' = "crashed"
          /\ UNCHANGED <<actions, risks, accomplishments, nextSteps>>
     ELSE /\ pc' = next
          /\ actions' = r.actions
          /\ risks' = r.risks
          /\ accomplishments' = r.accomplishments
          /\ nextSteps' = r.nextSteps

LoopSlack ==
  /\ pc = "loopSlack"
  /\ LoopStep("slack", slack, "loopSalesforce")
  /\ UNCHANGED <<files, slack, salesforce, gdrive, glean, data, overall, runVars>>

LoopSalesforce ==
  /\ pc = "loopSalesforce"
  /\ LoopStep("salesforce", salesforce, "loopGdrive")
  /\ UNCHANGED <<files, slack, salesforce, gdrive, glean, data, overall, runVars>>

LoopGdrive ==
  /\ pc = "loopGdrive"
  /\ LoopStep("gdrive", gdrive, "loopGlean")
  /\ UNCHANGED <<files, slack, salesforce, gdrive, glean, data, overall, runVars>>

LoopGlean ==
  /\ pc = "loopGlean"
  /\ LoopStep("glean", glean, "return")
  /\ UNCHANGED <<files, slack, salesforce, gdrive, glean, data, overall, runVars>>

\* return { actions: actions.slice(0, 12), ... } and const data = normalize()
Return ==
  /\ pc = "return"
  /\ data' = Truncate(Acc)
  /\ pc' = "classify"
  /\ UNCHANGED <<files, slack, salesforce, gdrive, glean, actions, risks, accomplishments, nextSteps, overall, runVars>>

\* the classification taken from the accumulator instead of the returned model
ClassifyBeforeCap ==
  /\ pc = "classify"
  /\ overall' = ragFromRisks(risks)
  /\ pc' = IF overall' = "Throw" THEN "crashed" ELSE "classified"
  /\ UNCHANGED <<files, slack, salesforce, gdrive, glean, actions, risks, accomplishments, nextSteps, data, runVars>>

\* const overall = ragFromRisks(data.risks)
Classify ==
  /\ pc = "classify"
  /\ overall' = ragFromRisks(data.risks)
  /\ pc' = IF overall' = "Throw" THEN "crashed" ELSE "classified"
  /\ UNCHANGED <<files, slack, salesforce, gdrive, glean, actions, risks, accomplishments, nextSteps, data, runVars>>

Next ==
  \/ ReadSlack \/ ReadSalesforce \/ ReadGdrive \/ ReadGlean
  \/ LoopSlack \/ LoopSalesforce \/ LoopGdrive \/ LoopGlean
  \/ Return \/ Classify

Spec == Init /\ [][Next]_vars

TypeOK ==
  /\ pc \in {"readSlack", "readSalesforce", "readGdrive", "readGlean", "loopSlack",
             "loopSalesforce", "loopGdrive", "loopGlean", "return", "classify",
             "classified", "crashed"}
  /\ overall \in {"unset", "Green", "Amber", "Red", "Throw"}

(***************************************************************************)
(* normalize() as one function of the input files, composed of the same     *)
(* statements the actions above execute one at a time.                      *)
(***************************************************************************)
PreCap(fs) ==
  Loop("glean", ReadSource(fs, "glean"),
    Loop("gdrive", ReadSource(fs, "gdrive"),
      Loop("salesforce", ReadSource(fs, "salesforce"),
        Loop("slack", ReadSource(fs, "slack"), EmptyAcc))))

normalize(fs) == IF PreCap(fs) = Throw THEN Throw ELSE Truncate(PreCap(fs))

(***************************************************************************)
(* Vocabulary of the properties.                                            *)
(***************************************************************************)
\* normalize has returned
Returned == pc \in {"classify", "classified"}

\* all four forEach loops have completed and the caps are not yet applied
Accumulated == pc = "return"

\* the value under the collection key of the unwrapped payload of src
LocalOf(src) ==
  CASE src = "slack" -> slack
    [] src = "salesforce" -> salesforce
    [] src = "gdrive" -> gdrive
    [] src = "glean" -> glean

\* the sources whose const declaration has run
ReadDone ==
  CASE pc = "readSlack" -> {}
    [] pc = "readSalesforce" -> {"slack"}
    [] pc = "readGdrive" -> {"slack", "salesforce"}
    [] pc = "readGlean" -> {"slack", "salesforce", "gdrive"}
    [] OTHER -> Sources

\* a record item all of whose present fields are strings
IsPlainRecord(item) ==
  /\ item.t = "obj"
  /\ \A k \in DOMAIN item.f : item.f[k].t = "str"

\* a file that parses to { <key>: [plain records] }
IsWellFormed(src, file) ==
  /\ file.kind = "json"
  /\ file.value.t = "obj"
  /\ DOMAIN file.value.f = {CollectionKey(src)}
  /\ file.value.f[CollectionKey(src)].t = "arr"
  /\ \A k \in 1..Len(file.value.f[CollectionKey(src)].a) :
       IsPlainRecord(file.value.f[CollectionKey(src)].a[k])

\* the source's file is missing or is not valid JSON
Unreadable(src) == files[src].kind \in {"absent", "garbage"}

\* the same inputs with the file of src replaced by its empty default payload
WithDefault(src) == [files EXCEPT ![src] = ListFile(src, <<>>)]

\* the same inputs with the file of src replaced by an empty collection and
\* nothing else: what is left is the contribution of the other three sources
Others(src) == PreCap(WithDefault(src))

\* C1: whatever the four collections hold, the model normalize returns has at
\* most 12 actions, 10 risks, 8 accomplishments and 8 next steps.
C1_CapInvariant ==
  Returned =>
    /\ Len(data.actions) <= 12
    /\ Len(data.risks) <= 10
    /\ Len(data.accomplishments) <= 8
    /\ Len(data.nextSteps) <= 8

\* C1 witness: normalize returned although each accumulator exceeded its cap
C1_Witness ==
  /\ Returned
  /\ Len(actions) > 12 /\ Len(risks) > 10
  /\ Len(accomplishments) > 8 /\ Len(nextSteps) > 8

\* C2: a source file that is absent or unparsable is treated exactly like that
\* source's empty default payload: its unwrapped payload is { <key>: [] }, the
\* accumulators hold what the other three sources contribute and nothing else,
\* the returned model is the one the default payload gives, a crash happens
\* only if the default payload gives one too, and there is none when the other
\* three files are well formed.
C2_UnreadableIsDefault ==
  \A src \in Sources :
    Unreadable(src) =>
      /\ src \in ReadDone => LocalOf(src) = Keyed(src, Arr(<<>>))
      /\ Accumulated => Acc = Others(src)
      /\ Returned => data = normalize(WithDefault(src))
      /\ pc = "crashed" => normalize(WithDefault(src)) = Throw
      /\ (\A o \in Sources \ {src} : IsWellFormed(o, files[o])) => pc # "crashed"

\* C2 witness: a run with an unreadable file returned a model that holds the
\* other sources' items
C2_Witness ==
  /\ Returned
  /\ \E src \in Sources : files[src] = GarbageFile
  /\ Len(data.actions) = 3 /\ Len(data.risks) >= 1

\* what the unwrapped payload of src holds under its collection key
KeyValue(src) == Get(LocalOf(src), CollectionKey(src))

\* the items the forEach of src visits
CollItems(src) == IF KeyValue(src).t = "arr" THEN KeyValue(src).a ELSE <<>>

\* every file but that of src is well formed
OthersWellFormed(src) == \A o \in Sources \ {src} : IsWellFormed(o, files[o])

\* C3: a collection key that is absent or holds something that is not a
\* sequence is treated as an empty sequence: the source contributes nothing
\* and, the other files being well formed, the run does not crash.
C3_NonSequenceIsEmpty ==
  \A src \in Sources :
    (ReadDone = Sources /\ KeyValue(src).t # "arr") =>
      /\ OthersWellFormed(src) => pc # "crashed"
      /\ Accumulated => Acc = Others(src)

\* C4: with a sequence under every collection key, whatever its items hold
\* (null, a bare string, a severity that is a number, missing fields),
\* normalize and the classification complete.
C4_TotalOverItems ==
  (ReadDone = Sources /\ \A src \in Sources : KeyValue(src).t = "arr") => pc # "crashed"

\* s spells the lower-case word w in some letter case
IsCaseVariant(s, w) ==
  /\ Len(s) = Len(w)
  /\ \A k \in 1..Len(w) :
       \/ s[k] = w[k]
       \/ \E i \in 1..26 : LowerChars[i] = w[k] /\ UpperChars[i] = s[k]

\* the severity-like field of each source
SeverityKey(src) ==
  CASE src = "slack" -> "impact"
    [] src = "salesforce" -> "risk"
    [] OTHER -> "priority"

\* item carries the severity "high" or "critical" in some letter case
IsSevere(src, item) ==
  /\ item.t = "obj"
  /\ SeverityKey(src) \in DOMAIN item.f
  /\ item.f[SeverityKey(src)].t = "str"
  /\ \/ IsCaseVariant(item.f[SeverityKey(src)].s, LitLowerHigh)
     \/ IsCaseVariant(item.f[SeverityKey(src)].s, LitLowerCritical)

\* the severities of the severe items, in collection order
RECURSIVE SevereSeverities(_, _)
SevereSeverities(src, items) ==
  IF items = <<>> THEN <<>>
  ELSE (IF IsSevere(src, Head(items)) THEN <<Head(items).f[SeverityKey(src)]>> ELSE <<>>)
         \o SevereSeverities(src, Tail(items))

RiskImpacts == [k \in 1..Len(risks) |-> risks[k].impact]

\* C5: before the cap, the risks are exactly one per chat or CRM item whose
\* severity is "high" or "critical" in any letter case, in order; items with
\* another or no severity, and document and search items, yield none.
C5_RiskGating ==
  /\ pc = "loopSalesforce" => RiskImpacts = SevereSeverities("slack", CollItems("slack"))
  /\ (pc \in {"loopGdrive", "loopGlean", "return"} \/ Returned) =>
       RiskImpacts = SevereSeverities("slack", CollItems("slack"))
                       \o SevereSeverities("salesforce", CollItems("salesforce"))

\* C5 witness: an upper-case HIGH chat item and a Low one were folded, and a
\* document flagged Critical was visited, leaving exactly one risk
C5_Witness ==
  /\ Accumulated
  /\ CollItems("slack") = <<mHigh, mLow>>
  /\ CollItems("gdrive") = <<dFull>>
  /\ CollItems("salesforce") = <<>>
  /\ Len(risks) = 1

(***************************************************************************)
(* ragFromRisks on its own: any list of up to MaxRiskList risks whose       *)
(* impact is absent or one of the strings below.                            *)
(***************************************************************************)
ImpactValues ==
  { Undefined, EmptyStr,
    Str(<<"L","o","w">>), Str(<<"M","e","d","i","u","m">>),
    Str(<<"h","i","g","h">>), Str(<<"H","i","g","h">>), Str(<<"H","I","G","H">>),
    Str(<<"c","r","i","t","i","c","a","l">>), Str(<<"C","r","i","t","i","c","a","l">>),
    Str(<<"c","R","i","T","i","C","a","L">>) }

RiskOf(impact) ==
  [description |-> Str(<<"r">>), impact |-> impact, probability |-> Str(LitMed),
   action |-> Str(<<"a">>), status |-> Str(LitInProgress)]

InitRag ==
  /\ files = [s \in Sources |-> ListFile(s, <<>>)]
  /\ pc = "classify"
  /\ slack = Undefined /\ salesforce = Undefined /\ gdrive = Undefined /\ glean = Undefined
  /\ actions = <<>> /\ risks = <<>> /\ accomplishments = <<>> /\ nextSteps = <<>>
  /\ \E imps \in SeqsUpTo(ImpactValues, MaxRiskList) :
       data = [actions |-> <<>>, accomplishments |-> <<>>, nextSteps |-> <<>>,
               risks |-> [k \in 1..Len(imps) |-> RiskOf(imps[k])]]
  /\ overall = "unset"
  /\ DefaultRun
  /\ NoFunction

NextRag == Classify

SpecRag == InitRag /\ [][NextRag]_vars

\* some risk of rs has an impact spelling w in some letter case
AnyImpact(rs, w) ==
  \E k \in 1..Len(rs) : rs[k].impact.t = "str" /\ IsCaseVariant(rs[k].impact.s, w)

\* C6: the status is Red if some risk is critical in any letter case, else
\* Amber if some risk is high in any letter case, else Green; the position
\* and number of the entries do not matter.
C6_Classify ==
  pc = "classified" =>
    overall = IF AnyImpact(data.risks, LitLowerCritical) THEN "Red"
              ELSE IF AnyImpact(data.risks, LitLowerHigh) THEN "Amber"
              ELSE "Green"

\* C6 witness: two High entries followed by one Critical entry gave Red
C6_Witness ==
  /\ pc = "classified"
  /\ Len(data.risks) = 3
  /\ data.risks[1].impact = Str(LitHigh) /\ data.risks[2].impact = Str(<<"H","I","G","H">>)
  /\ data.risks[3].impact = Str(<<"C","r","i","t","i","c","a","l">>)
  /\ overall = "Red"

(***************************************************************************)
(* What each item is expected to contribute.                                *)
(***************************************************************************)
\* the sources in processing order
SourceOrder == <<"slack", "salesforce", "gdrive", "glean">>

\* the pairs <<source, item>> of every item, source by source
AllItems ==
  LET tag(src) == [k \in 1..Len(CollItems(src)) |-> <<src, CollItems(src)[k]>>]
  IN tag("slack") \o tag("salesforce") \o tag("gdrive") \o tag("glean")

\* item has a non-empty string under key
Has(item, key) ==
  /\ item.t = "obj"
  /\ key \in DOMAIN item.f
  /\ item.f[key].t = "str"
  /\ item.f[key].s # <<>>

\* the characters of item's key, or of the default
TextOr(item, key, default) == IF Has(item, key) THEN item.f[key].s ELSE default

TitleKey(src) ==
  CASE src = "slack" -> "title" [] src = "salesforce" -> "name"
    [] src = "gdrive" -> "title" [] src = "glean" -> "topic"

DetailKey(src) == IF src \in {"slack", "salesforce"} THEN "detail" ELSE "summary"

StatusKey(src) ==
  CASE src = "slack" -> "status" [] src = "salesforce" -> "stage" [] OTHER -> "state"

FollowKey(src) ==
  CASE src = "slack" -> "action" [] src = "salesforce" -> "next_step"
    [] src = "gdrive" -> "required_action" [] src = "glean" -> "follow_up"

\* the ActionItem of one item
ExpectedAction(src, item) ==
  [description |->
     CASE src = "slack" -> Str(TextOr(item, "title", LitSlackUpdate))
       [] src = "salesforce" ->
            Str(TextOr(item, "account", LitAccount) \o LitSep \o TextOr(item, "name", LitOpportunity))
       [] src = "gdrive" -> Str(TextOr(item, "title", LitDocumentUpdate))
       [] src = "glean" -> Str(TextOr(item, "topic", LitKnowledgeSignal)),
   owner |-> Str(TextOr(item, "owner", LitUnknown)),
   status |-> Str(TextOr(item, StatusKey(src), LitInProgress)),
   comments |-> Str(TextOr(item, FollowKey(src), <<>>))]

\* the concatenation of f over the pairs of items
RECURSIVE FlatMap(_, _)
FlatMap(f(_, _), pairs) ==
  IF pairs = <<>> THEN <<>>
  ELSE f(Head(pairs)[1], Head(pairs)[2]) \o FlatMap(f, Tail(pairs))

Min(a, b) == IF a < b THEN a ELSE b

\* seq is the first n elements of full, or all of full if it is shorter
IsFirstN(seq, full, n) ==
  /\ Len(seq) = Min(n, Len(full))
  /\ \A k \in 1..Len(seq) : seq[k] = full[k]

\* C7: the model's actions are the first 12 of the sequence holding one
\* ActionItem per item, sources in the order chat, CRM, documents, search and
\* items in collection order.
C7_ActionsInOrder ==
  Returned =>
    /\ Len(data.actions) = Min(12, Len(AllItems))
    /\ \A k \in 1..Len(data.actions) :
         data.actions[k] = ExpectedAction(AllItems[k][1], AllItems[k][2])

\* C7 witness: all four sources hold items, more than 12 in all
C7_Witness ==
  /\ Returned
  /\ \A src \in Sources : Len(CollItems(src)) >= 1
  /\ Len(AllItems) > 12
  /\ Len(data.actions) = 12

\* C8 as stated: one accomplishment per item that has a detail/summary or,
\* failing that, a title; none for an item with neither.
StatedAccomplishment(src, item) ==
  IF Has(item, DetailKey(src)) THEN <<item.f[DetailKey(src)]>>
  ELSE IF Has(item, TitleKey(src)) THEN <<item.f[TitleKey(src)]>>
  ELSE <<>>

C8_AsStated ==
  Accumulated => accomplishments = FlatMap(StatedAccomplishment, AllItems)

\* C8 amended: a chat item always yields one accomplishment (detail, else
\* title, else "Slack update"); a CRM, document or search item yields its
\* detail/summary when it has one and nothing otherwise.
AmendedAccomplishment(src, item) ==
  IF src = "slack"
  THEN <<Str(TextOr(item, "detail", TextOr(item, "title", LitSlackUpdate)))>>
  ELSE IF Has(item, DetailKey(src)) THEN <<item.f[DetailKey(src)]>> ELSE <<>>

C8_Amended ==
  Accumulated => accomplishments = FlatMap(AmendedAccomplishment, AllItems)

\* C8 witness: a CRM item with a name and no detail was folded next to a chat
\* item, and only the chat item left an accomplishment
C8_Witness ==
  /\ Accumulated
  /\ CollItems("salesforce") = <<oNameOnly>>
  /\ CollItems("slack") = <<mFull>>
  /\ CollItems("gdrive") = <<>> /\ CollItems("glean") = <<>>
  /\ Len(accomplishments) = 1

\* C9: the next steps are the follow-up fields of the items that have a
\* non-empty one, in processing order, and the model keeps the first 8.
ExpectedNextStep(src, item) ==
  IF Has(item, FollowKey(src)) THEN <<item.f[FollowKey(src)]>> ELSE <<>>

C9_NextSteps ==
  /\ (Accumulated \/ Returned) => nextSteps = FlatMap(ExpectedNextStep, AllItems)
  /\ Returned => IsFirstN(data.nextSteps, FlatMap(ExpectedNextStep, AllItems), 8)

\* C9 witness: more than 8 follow-ups were collected from three sources while
\* another source's items had none
C9_Witness ==
  /\ Returned
  /\ Len(nextSteps) > 8
  /\ Len(CollItems("salesforce")) >= 1
  /\ \A k \in 1..Len(CollItems("salesforce")) : ~Has(CollItems("salesforce")[k], "next_step")
  /\ \E k \in 1..Len(CollItems("gdrive")) : Has(CollItems("gdrive")[k], "required_action")
  /\ \E k \in 1..Len(CollItems("glean")) : Has(CollItems("glean")[k], "follow_up")
  /\ Len(data.nextSteps) = 8

\* what the items of src push when folded on their own
Contribution(src) == Loop(src, LocalOf(src), EmptyAcc)

\* the sources whose forEach has completed
LoopsDone ==
  CASE pc = "loopSalesforce" -> 1
    [] pc = "loopGdrive" -> 2
    [] pc = "loopGlean" -> 3
    [] pc \in {"return", "classify", "classified"} -> 4
    [] OTHER -> 0

\* the pushes of the first n sources, each folded on its own
RECURSIVE Joined(_)
Joined(n) ==
  IF n = 0 THEN EmptyAcc
  ELSE LET p == Joined(n - 1)
           c == Contribution(SourceOrder[n])
       IN [actions |-> p.actions \o c.actions,
           risks |-> p.risks \o c.risks,
           accomplishments |-> p.accomplishments \o c.accomplishments,
           nextSteps |-> p.nextSteps \o c.nextSteps]

\* C10: every source pushes what it would push on its own, however many
\* actions the earlier sources collected, and each cap is applied to its own
\* list after the last source.
C10_CapsIndependent ==
  /\ LoopsDone >= 1 => Acc = Joined(LoopsDone)
  /\ Returned =>
       /\ IsFirstN(data.actions, Joined(4).actions, 12)
       /\ IsFirstN(data.risks, Joined(4).risks, 10)
       /\ IsFirstN(data.accomplishments, Joined(4).accomplishments, 8)
       /\ IsFirstN(data.nextSteps, Joined(4).nextSteps, 8)

\* C10 witness: chat and CRM alone filled the 12 actions, and the model
\* still holds an accomplishment and a next step of the documents and of
\* the search items
C10_Witness ==
  /\ Returned
  /\ Len(CollItems("slack")) + Len(CollItems("salesforce")) >= 12
  /\ Len(Joined(2).accomplishments) + Len(Contribution("gdrive").accomplishments) < Len(data.accomplishments)
  /\ Len(Contribution("gdrive").accomplishments) = 1
  /\ Len(Joined(2).nextSteps) + Len(Contribution("gdrive").nextSteps) < Len(data.nextSteps)
  /\ Len(Contribution("gdrive").nextSteps) = 1

\* chat alone filled the 12 actions and the model still holds a risk of a
\* CRM item
C10_RiskAfterCap ==
  /\ Returned
  /\ Len(CollItems("slack")) >= 12
  /\ Len(Contribution("slack").risks) < Len(data.risks)

\* the chat and CRM items that pass the severity gate, in processing order
RECURSIVE RiskSources(_)
RiskSources(pairs) ==
  IF pairs = <<>> THEN <<>>
  ELSE (IF Head(pairs)[1] \in {"slack", "salesforce"} /\ IsSevere(Head(pairs)[1], Head(pairs)[2])
        THEN <<Head(pairs)>> ELSE <<>>) \o RiskSources(Tail(pairs))

\* the action text of the risk of one item: follow-up, " - ", owner
ExpectedRiskAction(src, item) ==
  Str(TextOr(item, FollowKey(src), <<"M","i","t","i","g","a","t","i","o","n"," ","T","B","D">>)
        \o <<" ","-"," ">>
        \o TextOr(item, "owner", <<"O","w","n","e","r"," ","T","B","D">>))

\* C11: every risk has probability "Med", and its action is the follow-up text
\* of its item (or "Mitigation TBD") joined by " - " to the item's owner (or
\* "Owner TBD"); the model's risks are the first 10 of them.
C11_RiskSynthesis ==
  LET from == RiskSources(AllItems)
  IN /\ (Accumulated \/ Returned) =>
          /\ Len(risks) = Len(from)
          /\ \A k \in 1..Len(risks) :
               /\ risks[k].probability = Str(<<"M","e","d">>)
               /\ risks[k].action = ExpectedRiskAction(from[k][1], from[k][2])
     /\ Returned =>
          \A k \in 1..Len(data.risks) :
            /\ data.risks[k].probability = Str(<<"M","e","d">>)
            /\ data.risks[k].action = ExpectedRiskAction(from[k][1], from[k][2])

\* C11 witness: the model holds the risk of an item with follow-up and owner
\* and the risk of an item with neither
C11_Witness ==
  /\ Returned
  /\ CollItems("slack") = <<mFull, mHigh>>
  /\ Len(data.risks) >= 2
  /\ data.risks[1].action = Str(<<"A","1"," ","-"," ","A","l">>)
  /\ data.risks[2].action = Str(<<"M","i","t","i","g","a","t","i","o","n"," ","T","B","D",
                                  " ","-"," ","O","w","n","e","r"," ","T","B","D">>)

(***************************************************************************)
(* The helpers of run(): dates, slugs, colours.                             *)
(***************************************************************************)
\* the calendar day the clock shows after i days: 31 Dec 2025, 1 Jan 2026, ...
Day(i) ==
  IF i = 0 THEN [y |-> 2025, m |-> 12, d |-> 31] ELSE [y |-> 2026, m |-> 1, d |-> i]

\* String.prototype.padStart(n, c)
RECURSIVE PadStart(_, _, _)
PadStart(s, n, c) == IF Len(s) >= n THEN s ELSE PadStart(<<c>> \o s, n, c)

\* dateStamp() on a day: YYYY-MM-DD
dateStamp(day) ==
  NatToChars(day.y) \o <<"-">> \o PadStart(NatToChars(day.m), 2, "0")
    \o <<"-">> \o PadStart(NatToChars(day.d), 2, "0")

\* the short month names of the months the calendar above reaches
MonthShort(m) == IF m = 12 THEN <<"D","e","c">> ELSE <<"J","a","n">>

\* toLocaleDateString("en-AU", {day: "numeric", month: "short", year: "numeric"})
toLocaleDateString(day) ==
  NatToChars(day.d) \o <<" ">> \o MonthShort(day.m) \o <<" ">> \o NatToChars(day.y)

\* the characters the regular expression class [a-z0-9] accepts
IsAlnum(c) == (\E i \in 1..26 : LowerChars[i] = c) \/ (\E i \in 1..10 : Digits[i] = c)

\* s without its leading characters outside [a-z0-9]
RECURSIVE SkipNonAlnum(_)
SkipNonAlnum(s) == IF s # <<>> /\ ~IsAlnum(Head(s)) THEN SkipNonAlnum(Tail(s)) ELSE s

\* replace(/[^a-z0-9]/g, "-"): one hyphen per character
RECURSIVE ReplaceEach(_)
ReplaceEach(s) ==
  IF s = <<>> THEN <<>>
  ELSE (IF IsAlnum(Head(s)) THEN <<Head(s)>> ELSE <<"-">>) \o ReplaceEach(Tail(s))

\* replace(/[^a-z0-9]+/g, "-"): one hyphen per run
RECURSIVE ReplaceRuns(_)
ReplaceRuns(s) ==
  IF s = <<>> THEN <<>>
  ELSE IF IsAlnum(Head(s)) THEN <<Head(s)>> \o ReplaceRuns(Tail(s))
  ELSE <<"-">> \o ReplaceRuns(SkipNonAlnum(s))

RECURSIVE StripLeadingHyphens(_)
StripLeadingHyphens(s) ==
  IF s # <<>> /\ Head(s) = "-" THEN StripLeadingHyphens(Tail(s)) ELSE s

RECURSIVE StripTrailingHyphens(_)
StripTrailingHyphens(s) ==
  IF s # <<>> /\ s[Len(s)] = "-" THEN StripTrailingHyphens(SubSeq(s, 1, Len(s) - 1)) ELSE s

\* slugify(value) for a string or undefined value: the characters of the slug
slugify(value) ==
  LET lower == ToLowerCase(Or(value, EmptyStr)).s
      slug == StripTrailingHyphens(StripLeadingHyphens(ReplaceRuns(lower)))
  IN IF slug # <<>> THEN slug ELSE LitCustomer

\* BRAND.green, BRAND.amber, BRAND.red
BrandGreen == "00A86B"
BrandAmber == "F5A623"
BrandRed == "D32F2F"

\* statusFill with green as the colour of everything that is not Amber or Red
statusFillDefaultGreen(s) ==
  IF s = "Amber" THEN BrandAmber
  ELSE IF s = "Red" THEN BrandRed
  ELSE BrandGreen

statusFill(s) ==
  IF s = "Green" THEN BrandGreen
  ELSE IF s = "Amber" THEN BrandAmber
  ELSE BrandRed

\* the characters of the aggregate status in a template literal
StatusChars(s) ==
  CASE s = "Green" -> <<"G","r","e","e","n">>
    [] s = "Amber" -> <<"A","m","b","e","r">>
    [] s = "Red" -> <<"R","e","d">>

TOTAL_SLIDES == 11

\* the page label printed before slideNo is incremented
PageLabelBeforeIncrement(n) == Str(NatToChars(n - 1) \o LitOf \o NatToChars(TOTAL_SLIDES))

\* `${slideNo} of ${TOTAL_SLIDES}`
PageLabel(n) == Str(NatToChars(n) \o LitOf \o NatToChars(TOTAL_SLIDES))

\* the output name numbered when a file of that name is already in outputs/
OutputNameNumbered(p, date) ==
  LET name == slugify(p.customer) \o <<"_">> \o slugify(p.engagement)
                \o LitReportSuffix \o ToChars(date) \o LitPptx
  IN IF Str(name) \in outputFiles THEN <<"2","_">> \o name ELSE name

\* the characters of outputName
OutputNameOf(p, date) ==
  slugify(p.customer) \o <<"_">> \o slugify(p.engagement)
    \o LitReportSuffix \o ToChars(date) \o LitPptx

(***************************************************************************)
(* The model-dependent content of the slides.                               *)
(***************************************************************************)
\* a bold header cell of a table
HeaderCell(text) == [text |-> text, bold |-> TRUE]

ActionHeader ==
  <<HeaderCell("S. No."), HeaderCell("Date"), HeaderCell("Description"),
    HeaderCell("Owner"), HeaderCell("Status"), HeaderCell("Comments")>>

RiskHeader ==
  <<HeaderCell("ID"), HeaderCell("Type"), HeaderCell("Description"), HeaderCell("Impact"),
    HeaderCell("Probability"), HeaderCell("Action(s) - Owner"), HeaderCell("Status")>>

ActionPlaceholder(display) ==
  <<Str(<<"1">>), display, Str(LitNoActions), Str(LitDash), Str(LitDash), Str(LitDash)>>

RiskPlaceholder ==
  <<Str(<<"0","1">>), Str(LitRisk), Str(LitNoRisks), Str(LitLow), Str(LitLow),
    Str(LitContinueMonitoring), Str(LitOpen)>>

\* the action table with the placeholder row pushed unconditionally
ActionRowsAlwaysPlaceholder(as, display) ==
  <<ActionHeader>>
    \o [i \in 1..Len(as) |->
          <<Str(NatToChars(i)), display, as[i].description, as[i].owner, as[i].status,
            Or(as[i].comments, EmptyStr)>>]
    \o <<ActionPlaceholder(display)>>

\* actionRows of slide 4
ActionRows(as, display) ==
  <<ActionHeader>>
    \o [i \in 1..Len(as) |->
          <<Str(NatToChars(i)), display, as[i].description, as[i].owner, as[i].status,
            Or(as[i].comments, EmptyStr)>>]
    \o (IF Len(as) = 0 THEN <<ActionPlaceholder(display)>> ELSE <<>>)

\* the risk table without its placeholder row
RiskRowsNoPlaceholder(rs) ==
  <<RiskHeader>>
    \o [i \in 1..Len(rs) |->
          <<Str(PadStart(NatToChars(i), 2, "0")), Str(LitRisk), rs[i].description, rs[i].impact,
            rs[i].probability, rs[i].action, rs[i].status>>]

\* riskRows of slide 6
RiskRows(rs) ==
  <<RiskHeader>>
    \o [i \in 1..Len(rs) |->
          <<Str(PadStart(NatToChars(i), 2, "0")), Str(LitRisk), rs[i].description, rs[i].impact,
            rs[i].probability, rs[i].action, rs[i].status>>]
    \o (IF Len(rs) = 0 THEN <<RiskPlaceholder>> ELSE <<>>)

\* the points to discuss without slice(0, 4)
PointsUncapped(d) ==
  IF Len(d.risks) # 0
  THEN [k \in 1..Len(d.risks) |-> Str(ToChars(d.risks[k].description))]
  ELSE IF Len(d.nextSteps) # 0 THEN d.nextSteps
  ELSE <<Str(LitNoPoints)>>

\* points of slide 11
Points(d) ==
  IF Len(d.risks) # 0
  THEN [k \in 1..Len(Slice(d.risks, 4)) |-> Str(ToChars(d.risks[k].description))]
  ELSE IF Len(d.nextSteps) # 0 THEN Slice(d.nextSteps, 4)
  ELSE <<Str(LitNoPoints)>>

\* the text handed to addText for a bulleted list, or its placeholder
BulletsOr(list, placeholder) == IF Len(list) # 0 THEN Arr(list) ELSE Str(placeholder)

\* the "Overall: ..." badge of slides 5 and 11
Badge(status) == [text |-> Str(LitOverall \o StatusChars(status)), fill |-> statusFill(status)]

\* "Scope: ... | Schedule: ... | Make-It-Right: Green"
SummaryLine(status) ==
  Str(LitScope \o StatusChars(status) \o LitSchedule \o StatusChars(status) \o LitMakeItRight)

(***************************************************************************)
(* parseArgs.  An argument vector is a sequence of strings.                 *)
(***************************************************************************)
LitFlagPeriod == <<"-","-","p","e","r","i","o","d">>
LitFlagCustomer == <<"-","-","c","u","s","t","o","m","e","r">>
LitFlagEngagement == <<"-","-","e","n","g","a","g","e","m","e","n","t">>

\* String.prototype.startsWith("--")
StartsWithDashes(s) == Len(s) >= 2 /\ s[1] = "-" /\ s[2] = "-"

\* argv[i], counting from 1; undefined past the end
ArgAt(a, i) == IF i \in 1..Len(a) THEN Str(a[i]) ELSE Undefined

\* the for loop of parseArgs from index i on
RECURSIVE ParseFlags(_, _, _)
ParseFlags(a, i, args) ==
  IF i > Len(a) THEN args
  ELSE LET value == ArgAt(a, i + 1)
           a1 == IF a[i] = LitFlagPeriod /\ Truthy(value)
                 THEN [args EXCEPT !.period = value] ELSE args
           a2 == IF a[i] = LitFlagCustomer /\ Truthy(value)
                 THEN [a1 EXCEPT !.customer = value] ELSE a1
           a3 == IF a[i] = LitFlagEngagement /\ Truthy(value)
                 THEN [a2 EXCEPT !.engagement = value] ELSE a2
       IN ParseFlags(a, i + 1, a3)

parseArgs(a) ==
  LET first == ArgAt(a, 1)
      args == IF Truthy(first) /\ ~StartsWithDashes(first.s)
              THEN [DefaultArgs EXCEPT !.period = first]
              ELSE DefaultArgs
  IN ParseFlags(a, 1, args)

\* the command lines the script is started with: none, and a positional
\* period, a customer, an engagement of punctuation and a flag without value
Argvs ==
  { <<>>,
    <<<<"W","1">>, LitFlagCustomer, <<"V","e","n","t","i","a","!","!"," ","C","o">>, LitFlagEngagement, <<"!","!">>, LitFlagPeriod>> }

(***************************************************************************)
(* The eleven slides.  A slide is recorded with the title, subtitle and     *)
(* page label addChrome puts on it and the content that depends on the      *)
(* model, the status, the dates or the parameters.                          *)
(***************************************************************************)
LitPlanTracked == <<" ","p","l","a","n"," ","-"," ","t","r","a","c","k","e","d"," ","i","n"," ","c","u","s","t","o","m","e","r"," ","J","i","r","a">>
LitStatusSummary == <<"S","t","a","t","u","s"," ","S","u","m","m","a","r","y"," ","(">>
LitCloseParen == <<")">>
LitPeriodSep == <<" ","-"," ">>

\* `${customerName} ${engagementName}`
CustomerEngagement(p) == ToChars(p.customer) \o <<" ">> \o ToChars(p.engagement)

CoverBody ==
  [date |-> reportDateDisplay,
   badge |-> [text |-> Str(LitProjectStatus \o StatusChars(overall)), color |-> statusFill(overall)]]

StaticBody == [static |-> TRUE]

ActionItemsBody == [rows |-> ActionRows(data.actions, reportDateDisplay)]

EngagementBody ==
  [badge |-> Badge(overall),
   summary |-> SummaryLine(overall),
   accomplishments |-> BulletsOr(data.accomplishments, LitNoAccomplishments),
   nextSteps |-> BulletsOr(data.nextSteps, LitNoNextSteps)]

RiskIssueBody == [rows |-> RiskRows(data.risks)]

PlanTrackingBody == [text |-> Str(CustomerEngagement(parsed) \o LitPlanTracked)]

PriorBody == [heading |-> Str(LitStatusSummary \o ToChars(parsed.period) \o LitCloseParen)]

EarlierBody ==
  [badge |-> Badge(overall), summary |-> SummaryLine(overall), points |-> Points(data)]

\* s = pptx.addSlide(); addChrome(s, title, subtitle); ...content...
SlideStep(at, next, name, title, subtitle, body) ==
  /\ pc = at
  /\ slideNo' = slideNo + 1
  /\ slides' = Append(slides, [name |-> name, title |-> title, subtitle |-> subtitle,
                               page |-> PageLabel(slideNo'), body |-> body])
  /\ pc' = next
  /\ UNCHANGED <<files, slack, salesforce, gdrive, glean, actions, risks, accomplishments,
                 nextSteps, data, overall, parsed, today, outputsExists, reportDate,
                 reportDateDisplay, outputName, writes, log, exitCode, runNo, previous,
                 outputFiles, arg, result, argv>>

Slide1 ==
  SlideStep("slide1", "slide2", "Cover",
            Str(CustomerEngagement(parsed) \o LitPSEngagement),
            Str(LitWeeklyPrefix \o ToChars(reportDateDisplay)), CoverBody)

Slide2 ==
  SlideStep("slide2", "slide3", "Agenda", Str(LitAgenda),
            Str(CustomerEngagement(parsed) \o LitPeriodSep \o ToChars(parsed.period)), StaticBody)

Slide3 ==
  SlideStep("slide3", "slide4", "Teams", Str(LitTeams),
            Str(LitWeekEnding \o ToChars(reportDateDisplay)), StaticBody)

Slide4 ==
  SlideStep("slide4", "slide5", "Action Items", Str(LitStatusUpdates), parsed.period,
            ActionItemsBody)

Slide5 ==
  SlideStep("slide5", "slide6", "Engagement Status", Str(LitEngagementStatus), parsed.period,
            EngagementBody)

Slide6 ==
  SlideStep("slide6", "slide7", "Risk & Issue", Str(LitRiskIssue), parsed.period, RiskIssueBody)

Slide7 ==
  SlideStep("slide7", "slide8", "Resource Plan", Str(LitResourcePlan), parsed.period, StaticBody)

Slide8 ==
  SlideStep("slide8", "slide9", "Plan Tracking", Str(LitPlanTracking), parsed.period,
            PlanTrackingBody)

Slide9 ==
  SlideStep("slide9", "slide10", "Thank You", Str(LitThankYou), parsed.period, StaticBody)

Slide10 ==
  SlideStep("slide10", "slide11", "Prior week snapshot", Str(LitEngagementStatus),
            Str(LitPriorWeek), PriorBody)

Slide11 ==
  SlideStep("slide11", "outputName", "Earlier week snapshot", Str(LitEngagementStatus),
            Str(LitEarlierWeek), EarlierBody)

(***************************************************************************)
(* The rest of run(): the output directory, the arguments, the two clock    *)
(* reads, the file name and the asynchronous write.                         *)
(***************************************************************************)
\* everything normalize and the classification own
modelVars == <<files, slack, salesforce, gdrive, glean, actions, risks, accomplishments,
               nextSteps, data, overall>>

\* if (!fs.existsSync(OUTPUTS)) fs.mkdirSync(OUTPUTS, { recursive: true })
EnsureOutputs ==
  /\ pc = "mkdir"
  /\ outputsExists' = TRUE
  /\ pc' = "parseArgs"
  /\ UNCHANGED <<modelVars, parsed, today, reportDate, reportDateDisplay, slideNo, slides,
                 outputName, writes, log, exitCode, runNo, previous, outputFiles, arg, result,
                 argv>>

\* mkdirSync throws: the directory cannot be created
EnsureOutputsFails ==
  /\ pc = "mkdir"
  /\ ~outputsExists
  /\ pc' = "crashed"
  /\ UNCHANGED <<modelVars, runVars>>

\* const parsed = parseArgs(process.argv.slice(2))
ParseArgs ==
  /\ pc = "parseArgs"
  /\ parsed' = parseArgs(argv)
  /\ pc' = "readSlack"
  /\ UNCHANGED <<modelVars, today, outputsExists, reportDate, reportDateDisplay, slideNo,
                 slides, outputName, writes, log, exitCode, runNo, previous, outputFiles, arg,
                 result, argv>>

\* const reportDate = dateStamp()
ReadDate ==
  /\ pc = "classified"
  /\ reportDate' = Str(dateStamp(Day(today)))
  /\ pc' = "displayDate"
  /\ UNCHANGED <<modelVars, parsed, today, outputsExists, reportDateDisplay, slideNo, slides,
                 outputName, writes, log, exitCode, runNo, previous, outputFiles, arg, result,
                 argv>>

\* const reportDateDisplay = new Date().toLocaleDateString("en-AU", ...)
ReadDisplayDate ==
  /\ pc = "displayDate"
  /\ reportDateDisplay' = Str(toLocaleDateString(Day(today)))
  /\ pc' = "slide1"
  /\ UNCHANGED <<modelVars, parsed, today, outputsExists, reportDate, slideNo, slides,
                 outputName, writes, log, exitCode, runNo, previous, outputFiles, arg, result,
                 argv>>

\* const outputName = `${slugify(customerName)}_..._${reportDate}.pptx`
BuildName ==
  /\ pc = "outputName"
  /\ outputName' = Str(OutputNameOf(parsed, reportDate))
  /\ pc' = "writeFile"
  /\ UNCHANGED <<modelVars, parsed, today, outputsExists, reportDate, reportDateDisplay,
                 slideNo, slides, writes, log, exitCode, runNo, previous, outputFiles, arg,
                 result, argv>>

\* path.join(OUTPUTS, outputName), relative to the working directory
LitOutputsDir == <<"o","u","t","p","u","t","s","/">>
OutputPath(name) == LitOutputsDir \o ToChars(name)

\* pptx.writeFile({ fileName: outputPath }): the promise is created and
\* run() returns
StartWrite ==
  /\ pc = "writeFile"
  /\ writes' = writes + 1
  /\ pc' = "writing"
  /\ UNCHANGED <<modelVars, parsed, today, outputsExists, reportDate, reportDateDisplay,
                 slideNo, slides, outputName, log, exitCode, runNo, previous, outputFiles, arg,
                 result, argv>>

\* the promise is fulfilled: the .then callback
WriteResolved ==
  /\ pc = "writing"
  /\ outputFiles' = outputFiles \cup {outputName}
  /\ log' = Append(log, [stream |-> "stdout", text |-> Str(LitGenerated \o OutputPath(outputName))])
  /\ pc' = "done"
  /\ UNCHANGED <<modelVars, parsed, today, outputsExists, reportDate, reportDateDisplay,
                 slideNo, slides, outputName, writes, exitCode, runNo, previous, arg, result,
                 argv>>

\* the .catch callback without process.exitCode = 1
WriteRejectedExitZero ==
  /\ pc = "writing"
  /\ outputFiles' \in {outputFiles, outputFiles \cup {outputName}}
  /\ log' = Append(log, [stream |-> "stderr", text |-> Str(LitFailed)])
  /\ pc' = "failed"
  /\ UNCHANGED <<modelVars, parsed, today, outputsExists, reportDate, reportDateDisplay,
                 slideNo, slides, outputName, writes, exitCode, runNo, previous, arg, result,
                 argv>>

\* the promise is rejected: the .catch callback; whatever the write left in
\* outputs/ stays there
WriteRejected ==
  /\ pc = "writing"
  /\ outputFiles' \in {outputFiles, outputFiles \cup {outputName}}
  /\ log' = Append(log, [stream |-> "stderr", text |-> Str(LitFailed)])
  /\ exitCode' = 1
  /\ pc' = "failed"
  /\ UNCHANGED <<modelVars, parsed, today, outputsExists, reportDate, reportDateDisplay,
                 slideNo, slides, outputName, writes, runNo, previous, arg, result, argv>>

\* how many days the clock may advance, and how many times the script is run
MaxTicks == 1
MaxRuns == 2

\* midnight passes.  The clock is read at two places only, so a midnight
\* earlier in the run is one right before the first read, and a later one
\* is one right before the first read of the next run
Tick ==
  /\ pc \in {"classified", "displayDate"}
  /\ today < MaxTicks
  /\ today' = today + 1
  /\ UNCHANGED <<modelVars, pc, parsed, outputsExists, reportDate, reportDateDisplay, slideNo,
                 slides, outputName, writes, log, exitCode, runNo, previous, outputFiles, arg,
                 result, argv>>

\* the process has ended
Ended == pc \in {"done", "failed", "crashed"}

\* what an invocation produced
Produced ==
  [data |-> data, overall |-> overall, slides |-> slides, outputName |-> outputName,
   reportDate |-> reportDate, reportDateDisplay |-> reportDateDisplay, pc |-> pc]

\* the script is started again on the same files with the same command line:
\* a new process, with the clock and outputs/ as the last one left them
Restart ==
  /\ Ended
  /\ runNo < MaxRuns
  /\ previous' = Produced
  /\ runNo' = runNo + 1
  /\ pc' = "mkdir"
  /\ slack' = Undefined /\ salesforce' = Undefined /\ gdrive' = Undefined /\ glean' = Undefined
  /\ actions' = <<>> /\ risks' = <<>> /\ accomplishments' = <<>> /\ nextSteps' = <<>>
  /\ data' = Undefined
  /\ overall' = "unset"
  /\ parsed' = Undefined
  /\ reportDate' = Undefined
  /\ reportDateDisplay' = Undefined
  /\ slideNo' = 0
  /\ slides' = <<>>
  /\ outputName' = Undefined
  /\ writes' = 0
  /\ log' = <<>>
  /\ exitCode' = 0
  /\ UNCHANGED <<files, today, outputsExists, outputFiles, arg, result, argv>>

(***************************************************************************)
(* slugify and statusFill applied on their own to arbitrary arguments.      *)
(***************************************************************************)
MaxSlugLen == 4

\* a letter of each case, a digit, a hyphen, punctuation and a blank
SlugChars == {"a", "Z", "7", "-", "!", " "}

SlugInputs ==
  {Undefined, Str(<<"V","e","n","t","i","a","!","!"," ","C","o">>)} \cup {Str(s) : s \in SeqsUpTo(SlugChars, MaxSlugLen)}

\* the three statuses and strings that are none of them
StatusInputs == {"Green", "Amber", "Red", "Blue", "green", ""}

FunctionInputs ==
  {[fn |-> "slugify", value |-> v] : v \in SlugInputs}
    \cup {[fn |-> "statusFill", s |-> v] : v \in StatusInputs}

ApplySlugify ==
  /\ pc = "pure"
  /\ arg.fn = "slugify"
  /\ result' = Str(slugify(arg.value))
  /\ pc' = "applied"
  /\ UNCHANGED <<modelVars, parsed, today, outputsExists, reportDate, reportDateDisplay,
                 slideNo, slides, outputName, writes, log, exitCode, runNo, previous,
                 outputFiles, arg, argv>>

ApplyStatusFill ==
  /\ pc = "pure"
  /\ arg.fn = "statusFill"
  /\ result' = statusFill(arg.s)
  /\ pc' = "applied"
  /\ UNCHANGED <<modelVars, parsed, today, outputsExists, reportDate, reportDateDisplay,
                 slideNo, slides, outputName, writes, log, exitCode, runNo, previous,
                 outputFiles, arg, argv>>

(***************************************************************************)
(* The whole script.                                                        *)
(***************************************************************************)
RunDocCopies == 5

RunSlack ==
  { <<>>, <<mFull>>, <<mHigh, mLow>>, <<mLow>>, Repeat(mFull, MaxCopies), <<Null>> }
RunSalesforce == { <<>>, <<oFull>> }
\* the document store and the search tool: both empty, or both populated
RunDocs ==
  { [gdrive |-> <<>>, glean |-> <<>>],
    [gdrive |-> Repeat(dFull, RunDocCopies), glean |-> <<iFull>>] }

RunInputs ==
  { [slack |-> ListFile("slack", a), salesforce |-> ListFile("salesforce", b),
     gdrive |-> ListFile("gdrive", c.gdrive), glean |-> ListFile("glean", c.glean)] :
      a \in RunSlack, b \in RunSalesforce, c \in RunDocs }

\* no input files at all
NoFiles == [s \in Sources |-> AbsentFile]

InitRun ==
  \/ /\ files \in RunInputs
     /\ pc = "mkdir"
     /\ InitLocals
     /\ argv \in Argvs
     /\ parsed = Undefined
     /\ today = 0
     /\ outputsExists \in BOOLEAN
     /\ InitRunLocals
     /\ runNo = 1
     /\ previous = Undefined
     /\ outputFiles = {}
     /\ NoFunction
  \/ /\ files = NoFiles
     /\ pc = "pure"
     /\ InitLocals
     /\ DefaultRun
     /\ arg \in FunctionInputs
     /\ result = Undefined

NextRun ==
  \/ EnsureOutputs \/ EnsureOutputsFails \/ ParseArgs
  \/ Next
  \/ ReadDate \/ ReadDisplayDate
  \/ Slide1 \/ Slide2 \/ Slide3 \/ Slide4 \/ Slide5 \/ Slide6
  \/ Slide7 \/ Slide8 \/ Slide9 \/ Slide10 \/ Slide11
  \/ BuildName \/ StartWrite \/ WriteResolved \/ WriteRejected
  \/ Tick \/ Restart
  \/ ApplySlugify \/ ApplyStatusFill

SpecRun == InitRun /\ [][NextRun]_vars

(***************************************************************************)
(* Vocabulary of the properties of the whole script.                        *)
(***************************************************************************)
\* every slide has been built
Rendered == pc \in {"outputName", "writeFile", "writing", "done", "failed"}

\* the titles of slides 2 to 11, and what the title of slide 1 ends with
SlideTitles ==
  <<"Agenda", "1) Teams", "2) Status Updates / Issues, Risks", "Engagement Status",
    "Risk & Issue", "Resource Plan", "Plan Tracking", "Thank You", "Engagement Status",
    "Engagement Status">>

\* the characters of a model string, as a sequence of one-character strings
Chars(str) ==
  CASE str = "Agenda" -> LitAgenda
    [] str = "1) Teams" -> LitTeams
    [] str = "2) Status Updates / Issues, Risks" -> LitStatusUpdates
    [] str = "Engagement Status" -> LitEngagementStatus
    [] str = "Risk & Issue" -> LitRiskIssue
    [] str = "Resource Plan" -> LitResourcePlan
    [] str = "Plan Tracking" -> LitPlanTracking
    [] str = "Thank You" -> LitThankYou

SlideOrder ==
  <<"Cover", "Agenda", "Teams", "Action Items", "Engagement Status", "Risk & Issue",
    "Resource Plan", "Plan Tracking", "Thank You", "Prior week snapshot",
    "Earlier week snapshot">>

\* how many slides exist when control is at pc
SlidesBuiltAt(at) ==
  CASE at = "slide1" -> 0 [] at = "slide2" -> 1 [] at = "slide3" -> 2 [] at = "slide4" -> 3
    [] at = "slide5" -> 4 [] at = "slide6" -> 5 [] at = "slide7" -> 6 [] at = "slide8" -> 7
    [] at = "slide9" -> 8 [] at = "slide10" -> 9 [] at = "slide11" -> 10
    [] at \in {"outputName", "writeFile", "writing", "done", "failed"} -> 11
    [] OTHER -> 0

\* s ends with the characters t
EndsWith(s, t) == Len(s) >= Len(t) /\ SubSeq(s, Len(s) - Len(t) + 1, Len(s)) = t

\* C12: one render builds exactly 11 slides in the order Cover, Agenda,
\* Teams, Action Items, Engagement Status, Risk & Issue, Resource Plan, Plan
\* Tracking, Thank You, prior snapshot, earlier snapshot; the k-th slide
\* built carries the page label "k of 11"; the counter equals the number of
\* slides built so far, grows by one per slide and never exceeds 11.
C12_ElevenSlidesInOrder ==
  pc \notin {"pure", "applied", "crashed"} =>
    /\ slideNo = Len(slides)
    /\ Len(slides) = SlidesBuiltAt(pc)
    /\ Len(slides) <= 11
    /\ \A k \in 1..Len(slides) :
         /\ slides[k].name = SlideOrder[k]
         /\ slides[k].page = Str(NatToChars(k) \o <<" ","o","f"," ","1","1">>)
         /\ k > 1 => slides[k].title = Str(Chars(SlideTitles[k - 1]))
         /\ k = 1 => EndsWith(slides[k].title.s, LitPSEngagement)

\* a finished render with a command line of its own and a risk in the model
C12_Witness ==
  /\ pc = "done"
  /\ Len(slides) = 11
  /\ slides[11].page = Str(<<"1","1"," ","o","f"," ","1","1">>)
  /\ slides[11].subtitle = Str(LitEarlierWeek)
  /\ argv # <<>>
  /\ Len(data.risks) > 0

\* the colour the claimed table gives a status: green unless Amber or Red
ClaimedToken(s) ==
  IF s = "Amber" THEN "F5A623" ELSE IF s = "Red" THEN "D32F2F" ELSE "00A86B"

\* the colour the code gives a status: red unless Green or Amber
CodeToken(s) ==
  IF s = "Green" THEN "00A86B" ELSE IF s = "Amber" THEN "F5A623" ELSE "D32F2F"

\* the badges of slides 1, 5 and 11, as far as they are built, have colour c
BadgesColoured(c) ==
  /\ Len(slides) >= 1 => slides[1].body.badge.color = c
  /\ Len(slides) >= 5 => slides[5].body.badge.fill = c
  /\ Len(slides) >= 11 => slides[11].body.badge.fill = c

C13_BadgesReached ==
  /\ pc = "done"
  /\ overall = "Amber"
  /\ slides[1].body.badge.color = "F5A623"
  /\ slides[11].body.badge.fill = "F5A623"

\* the third cell of some data row of a table is the text t
HasRowSaying(rows, t) == \E k \in 2..Len(rows) : rows[k][3] = Str(t)

\* the number k as a two-digit risk id
TwoDigits(k) == IF k < 10 THEN <<"0">> \o NatToChars(k) ELSE NatToChars(k)

\* the table of the Action Items slide is the header, then one row per
\* action of the model in order, or the one placeholder row
ActionTableAsClaimed(rows) ==
  LET n == Len(data.actions)
  IN /\ rows[1] = ActionHeader
     /\ n > 0 =>
          /\ Len(rows) = n + 1
          /\ \A k \in 1..n :
               rows[k + 1] = <<Str(NatToChars(k)), reportDateDisplay, data.actions[k].description,
                               data.actions[k].owner, data.actions[k].status,
                               data.actions[k].comments>>
          /\ ~HasRowSaying(rows, LitNoActions)
     /\ n = 0 =>
          rows = <<ActionHeader,
                   <<Str(<<"1">>), reportDateDisplay, Str(LitNoActions), Str(<<"-">>),
                     Str(<<"-">>), Str(<<"-">>)>> >>

\* the table of the Risk & Issue slide is the header, then one row per risk
\* of the model in order, or the one placeholder row
RiskTableAsClaimed(rows) ==
  LET n == Len(data.risks)
  IN /\ rows[1] = RiskHeader
     /\ n > 0 =>
          /\ Len(rows) = n + 1
          /\ \A k \in 1..n :
               rows[k + 1] = <<Str(TwoDigits(k)), Str(<<"R","i","s","k">>),
                               data.risks[k].description, data.risks[k].impact,
                               data.risks[k].probability, data.risks[k].action,
                               data.risks[k].status>>
          /\ ~HasRowSaying(rows, LitNoRisks)
     /\ n = 0 =>
          /\ Len(rows) = 2
          /\ rows[2][1] = Str(<<"0","1">>)
          /\ rows[2][3] = Str(LitNoRisks)

\* C14: on the Action Items slide and on the Risk & Issue slide the table is
\* the fixed header row followed by one data row per model item, in model
\* order, numbered from 1 (risk ids padded to two digits); it has exactly one
\* placeholder row if and only if the collection is empty, and a placeholder
\* row never stands next to data rows.
C14_Tables ==
  /\ Len(slides) >= 4 => ActionTableAsClaimed(slides[4].body.rows)
  /\ Len(slides) >= 6 => RiskTableAsClaimed(slides[6].body.rows)

\* a finished render with twelve action rows, ten risk rows the last of
\* which is numbered 10, and no placeholder
C14_Witness ==
  /\ pc = "done"
  /\ Len(slides[4].body.rows) = 13
  /\ Len(slides[6].body.rows) = 11
  /\ slides[6].body.rows[11][1] = Str(<<"1","0">>)
  /\ slides[6].body.rows[2][1] = Str(<<"0","1">>)

\* a finished render of empty inputs: both tables hold their placeholder row
C14_PlaceholdersReached ==
  /\ pc = "done"
  /\ Len(data.actions) = 0
  /\ Len(data.risks) = 0
  /\ HasRowSaying(slides[4].body.rows, LitNoActions)
  /\ HasRowSaying(slides[6].body.rows, LitNoRisks)

\* C15: the points to discuss of slide 11 are the descriptions of the first
\* 4 risks when the model has a risk; otherwise the first 4 next steps when
\* it has a next step; otherwise the single placeholder sentence.  The list
\* has between 1 and 4 entries.
C15_PointsToDiscuss ==
  Len(slides) >= 11 =>
    LET p == slides[11].body.points
        nr == Len(data.risks)
        nn == Len(data.nextSteps)
    IN /\ Len(p) \in 1..4
       /\ nr > 0 =>
            /\ Len(p) = Min(nr, 4)
            /\ \A k \in 1..Len(p) : p[k] = data.risks[k].description
       /\ (nr = 0 /\ nn > 0) =>
            /\ Len(p) = Min(nn, 4)
            /\ \A k \in 1..Len(p) : p[k] = data.nextSteps[k]
       /\ (nr = 0 /\ nn = 0) =>
            p = <<Str(<<"N","o"," ","p","r","i","o","r","i","t","y"," ","d","i","s","c","u","s","s","i","o","n"," ","p","o","i","n","t","s"," ","c","a","p","t","u","r","e","d"," ","f","o","r"," ","t","h","i","s"," ","p","e","r","i","o","d",".">>)>>

\* a finished render without risks and with more than four next steps, of
\* which the first four are listed
C15_Witness ==
  /\ pc = "done"
  /\ Len(data.risks) = 0
  /\ Len(data.nextSteps) > 4
  /\ Len(slides[11].body.points) = 4

\* a finished render with more than four risks and with next steps: the
\* first four risks are listed and no next step
C15_RisksReached ==
  /\ pc = "done"
  /\ Len(data.risks) > 4
  /\ Len(data.nextSteps) > 0
  /\ Len(slides[11].body.points) = 4
  /\ slides[11].body.points[1] = data.risks[1].description

\* a finished render with neither: the placeholder sentence
C15_PlaceholderReached ==
  /\ pc = "done"
  /\ Len(data.risks) = 0
  /\ Len(data.nextSteps) = 0
  /\ slides[11].body.points = <<Str(LitNoPoints)>>

\* the maximal runs of [a-z0-9] characters of s, in order; cur is the run
\* being read
RECURSIVE Words(_, _)
Words(s, cur) ==
  IF s = <<>> THEN (IF cur = <<>> THEN <<>> ELSE <<cur>>)
  ELSE IF IsAlnum(Head(s)) THEN Words(Tail(s), Append(cur, Head(s)))
  ELSE (IF cur = <<>> THEN <<>> ELSE <<cur>>) \o Words(Tail(s), <<>>)

\* the words joined by single hyphens
RECURSIVE JoinWithHyphen(_)
JoinWithHyphen(ws) ==
  IF ws = <<>> THEN <<>>
  ELSE IF Len(ws) = 1 THEN ws[1]
  ELSE ws[1] \o <<"-">> \o JoinWithHyphen(Tail(ws))

\* s is non-empty, over [a-z0-9-], with no hyphen at either end and no two
\* hyphens in a row
IsSlug(s) ==
  /\ s # <<>>
  /\ \A k \in 1..Len(s) : IsAlnum(s[k]) \/ s[k] = "-"
  /\ s[1] # "-"
  /\ s[Len(s)] # "-"
  /\ \A k \in 1..(Len(s) - 1) : ~(s[k] = "-" /\ s[k + 1] = "-")

\* C16: for every input string slugify returns a non-empty string over
\* [a-z0-9-] without a leading, trailing or doubled hyphen: the runs of
\* alphanumeric characters of the lower-cased input joined by single hyphens,
\* or "customer" when there is no such run; slugify("Ventia!! Co") is
\* "ventia-co" and slugify("") is "customer".
C16_Slugify ==
  (pc = "applied" /\ arg.fn = "slugify") =>
    LET input == IF arg.value = Undefined THEN <<>> ELSE arg.value.s
        words == Words(ToLowerCase(Str(input)).s, <<>>)
    IN /\ IsSlug(result.s)
       /\ words # <<>> => result.s = JoinWithHyphen(words)
       /\ words = <<>> => result.s = <<"c","u","s","t","o","m","e","r">>
       /\ input = <<"V","e","n","t","i","a","!","!"," ","C","o">>
            => result.s = <<"v","e","n","t","i","a","-","c","o">>
       /\ input = <<>> => result.s = <<"c","u","s","t","o","m","e","r">>

\* slugify has been applied to "Ventia!! Co"
C16_Witness ==
  /\ pc = "applied"
  /\ arg.fn = "slugify"
  /\ arg.value = Str(<<"V","e","n","t","i","a","!","!"," ","C","o">>)
  /\ result = Str(<<"v","e","n","t","i","a","-","c","o">>)

\* slugify has been applied to punctuation between a capital and a digit,
\* and to a string without any letter or digit
C16_RunsReached ==
  /\ pc = "applied"
  /\ arg.fn = "slugify"
  /\ \/ arg.value = Str(<<"Z","!"," ","7">>) /\ result = Str(<<"z","-","7">>)
     \/ arg.value = Str(<<"-","!"," ">>) /\ result = Str(LitCustomer)

\* the invocation before this one has ended and this one has ended too
SecondRunEnded == Ended /\ previous # Undefined

\* both invocations read the same dates from the clock (or neither read it)
SameDate ==
  /\ previous.reportDate = reportDate
  /\ previous.reportDateDisplay = reportDateDisplay

\* C17: two runs on identical source files with identical parameters and
\* the same date produce the same unified model, the same aggregate status,
\* the same slide content and the same output file name, whatever the
\* earlier run left behind (the outputs directory, the file it wrote).
C17_Determinism ==
  (SecondRunEnded /\ SameDate) =>
    /\ previous.data = data
    /\ previous.overall = overall
    /\ previous.slides = slides
    /\ previous.outputName = outputName

\* a second render, on the same day, of inputs with a risk and a command
\* line of its own, finishing after the first render left its file in
\* outputs/
C17_Witness ==
  /\ runNo = 2
  /\ pc = "done"
  /\ previous # Undefined
  /\ previous.pc = "done"
  /\ previous.reportDate = reportDate
  /\ previous.outputName \in outputFiles
  /\ Len(slides) = 11
  /\ Len(data.risks) > 0
  /\ argv # <<>>

\* a second render on the next day: the dates on the slides and in the file
\* name differ from the first render's
C17_NextDayReached ==
  /\ runNo = 2
  /\ pc = "done"
  /\ previous # Undefined
  /\ previous.pc = "done"
  /\ previous.reportDate # reportDate
  /\ previous.outputName # outputName
  /\ previous.data = data

\* the write has been started by this process
WriteStarted == pc \in {"writing", "done", "failed"}

\* the console lines of the two outcomes
SuccessLine ==
  [stream |-> "stdout",
   text |-> Str(<<"G","e","n","e","r","a","t","e","d"," ","P","P","T","X",":"," ">>
                  \o <<"o","u","t","p","u","t","s","/">> \o ToChars(outputName))]

FailureLine ==
  [stream |-> "stderr",
   text |-> Str(<<"F","a","i","l","e","d"," ","t","o"," ","g","e","n","e","r","a","t","e"," ","P","P","T","X",":">>)]

\* at most one write per process, started only after the eleventh slide;
\* nothing is reported while it is pending; success is reported exactly when
\* it has completed, with the exit code left at 0; failure is logged with the
\* exit code set to 1
WriteSafety ==
  pc \notin {"pure", "applied"} =>
    /\ writes <= 1
    /\ writes = 1 <=> WriteStarted
    /\ WriteStarted => Len(slides) = 11 /\ slideNo = 11
    /\ pc # "done" => \A k \in 1..Len(log) : log[k].stream # "stdout"
    /\ pc = "writing" => log = <<>> /\ exitCode = 0
    /\ pc = "done" => log = <<SuccessLine>> /\ exitCode = 0 /\ outputName \in outputFiles
    /\ pc = "failed" => log = <<FailureLine>> /\ exitCode = 1
    /\ pc \notin {"failed"} => exitCode = 0

\* the write library settles the promise it returns
SpecRunFair == SpecRun /\ WF_vars(WriteResolved \/ WriteRejected)

\* C18: in every run that reaches the write, exactly one write is started,
\* after all 11 slides are built; the run then ends in exactly one of two
\* outcomes: the write completes and the output path is reported with the
\* exit code left at success, or the write fails, the error is logged and the
\* exit code is set non-zero.  Success is never reported before the write
\* completes and the write is never retried.
C18_WriteOnceThenOutcome ==
  /\ []WriteSafety
  /\ (pc = "writing") ~> (pc \in {"done", "failed"})

\* a process whose write failed: the error is logged, the exit code is 1 and
\* a partial file is left in outputs/
C18_Witness ==
  /\ pc = "failed"
  /\ writes = 1
  /\ exitCode = 1
  /\ log = <<FailureLine>>
  /\ outputName \in outputFiles
  /\ runNo = 1

\* a process whose write completed
C18_SuccessReached ==
  /\ pc = "done"
  /\ writes = 1
  /\ exitCode = 0
  /\ log = <<SuccessLine>>

\* what readJson hands to extractData for a source
PayloadOf(src) == readJson(files[src], Fallback(src))

\* the payload is a record with a member data that is a record
HasDataRecord(payload) ==
  /\ payload.t = "obj"
  /\ "data" \in DOMAIN payload.f
  /\ payload.f["data"].t = "obj"

\* the payload is a record with a member data that is an array
HasDataArray(payload) ==
  /\ payload.t = "obj"
  /\ "data" \in DOMAIN payload.f
  /\ payload.f["data"].t = "arr"

\* the collection of a source looked up in v: undefined when v has no
\* members at all
CollectionIn(src, v) ==
  IF v.t = "obj" /\ CollectionKey(src) \in DOMAIN v.f THEN v.f[CollectionKey(src)] ELSE Undefined

\* the collection the forEach of a source is given, before `|| []`
CollectionSeen(src) == Get(LocalOf(src), CollectionKey(src))

\* C19: when the parsed payload is a record with a nested data record, the
\* collection of the source is looked up inside data and a collection key
\* beside data is ignored; in every other case the collection is looked up in
\* the payload as given.
C19_UnwrapRule ==
  \A src \in ReadDone :
    LET payload == PayloadOf(src)
    IN IF HasDataRecord(payload)
       THEN /\ LocalOf(src) = payload.f["data"]
            /\ CollectionSeen(src) = CollectionIn(src, payload.f["data"])
       ELSE CollectionSeen(src) = CollectionIn(src, payload)

\* the same rule with a data member that is an array set aside: the only
\* payloads on which the code departs from the rule
C19_ExceptDataArray ==
  \A src \in ReadDone :
    LET payload == PayloadOf(src)
    IN ~HasDataArray(payload) =>
         IF HasDataRecord(payload)
         THEN /\ LocalOf(src) = payload.f["data"]
              /\ CollectionSeen(src) = CollectionIn(src, payload.f["data"])
         ELSE CollectionSeen(src) = CollectionIn(src, payload)

\* { data: [], <key>: [item] } has been read: the array is taken for the
\* wrapper's content and the items beside it are lost
C19_DataArrayReached ==
  /\ "slack" \in ReadDone
  /\ HasDataArray(PayloadOf("slack"))
  /\ CollectionIn("slack", PayloadOf("slack")) = Arr(<<mFull>>)
  /\ slack = Arr(<<>>)
  /\ CollectionSeen("slack") = Undefined

\* { data: { <key>: [] }, <key>: [item] } has been read: the key beside data
\* is ignored
C19_WrapperReached ==
  /\ "slack" \in ReadDone
  /\ HasDataRecord(PayloadOf("slack"))
  /\ CollectionIn("slack", PayloadOf("slack")) = Arr(<<mFull>>)
  /\ CollectionSeen("slack") = Arr(<<>>)

\* the impact spells high or critical in some mix of cases
SpellsHighOrCritical(impact) ==
  /\ impact.t = "str"
  /\ ToLowerCase(impact).s \in {<<"h","i","g","h">>, <<"c","r","i","t","i","c","a","l">>}

\* C20: every risk of the model has an impact that is "high" or "critical"
\* up to case, so the aggregate status is Green if and only if the model has
\* no risk, which is if and only if the Risk & Issue table shows its
\* placeholder row.
C20_GreenIffNoRisk ==
  /\ data # Undefined =>
       \A k \in 1..Len(data.risks) : SpellsHighOrCritical(data.risks[k].impact)
  /\ overall \in {"Green", "Amber", "Red"} => (overall = "Green" <=> Len(data.risks) = 0)
  /\ (pc \notin {"pure", "applied"} /\ Len(slides) >= 6) =>
       /\ overall = "Green" <=> HasRowSaying(slides[6].body.rows, LitNoRisks)
       /\ Len(data.risks) = 0 <=> HasRowSaying(slides[6].body.rows, LitNoRisks)

\* a finished render of inputs with items but no risk: Green and the
\* placeholder row
C20_Witness ==
  /\ pc = "done"
  /\ Len(data.actions) > 1
  /\ Len(data.risks) = 0
  /\ overall = "Green"
  /\ slides[6].body.rows[2][3] = Str(LitNoRisks)

\* a finished render with a risk spelled HIGH: Amber and no placeholder row
C20_AmberReached ==
  /\ pc = "done"
  /\ Len(data.risks) = 1
  /\ data.risks[1].impact = Str(<<"H","I","G","H">>)
  /\ overall = "Amber"
  /\ ~HasRowSaying(slides[6].body.rows, LitNoRisks)

(***************************************************************************)
(* normalize and the classification on exports with many risk-eligible      *)
(* items: a run of High chat items and then a Critical, a Low or no item,   *)
(* with or without Critical and High opportunities behind them.             *)
(***************************************************************************)
MaxHighItems == 10

CapSlack ==
  { Repeat(mHigh, h) \o last : h \in 0..MaxHighItems, last \in {<<>>, <<mFull>>, <<mLow>>} }

CapSalesforce == { <<>>, <<oCrit>>, <<oFull>>, <<oFull, oCrit>> }

CapInputs ==
  { [slack |-> ListFile("slack", a), salesforce |-> ListFile("salesforce", b),
     gdrive |-> ListFile("gdrive", c), glean |-> ListFile("glean", <<>>)] :
      a \in CapSlack, b \in CapSalesforce, c \in {<<>>, <<dFull>>} }

InitCap ==
  /\ files \in CapInputs
  /\ pc = "readSlack"
  /\ InitLocals
  /\ DefaultRun
  /\ NoFunction

SpecCap == InitCap /\ [][Next]_vars

\* the severities of the risk-eligible chat and CRM items, in processing order
EligibleSeverities ==
  SevereSeverities("slack", CollItems("slack"))
    \o SevereSeverities("salesforce", CollItems("salesforce"))

\* one of the first n severities spells critical
CriticalAmongFirst(sevs, n) ==
  \E k \in 1..Len(sevs) :
    /\ k <= n
    /\ IsCaseVariant(sevs[k].s, <<"c","r","i","t","i","c","a","l">>)

\* C21: the status is computed from the risks after the cut to 10: it is Red
\* if and only if one of the first 10 risk-eligible chat/CRM items, in
\* processing order, is critical.  A critical item that is the 11th or later
\* eligible item does not count: 10 high items followed by a critical one
\* give Amber.
C21_StatusFromFirstTen ==
  pc = "classified" =>
    /\ overall = "Red" <=> CriticalAmongFirst(EligibleSeverities, 10)
    /\ (Len(EligibleSeverities) >= 1 /\ ~CriticalAmongFirst(EligibleSeverities, 10))
         => overall = "Amber"

\* ten HIGH chat items followed by a Critical one were classified: eleven
\* risks were collected, ten are in the model and the status is Amber
C21_Witness ==
  /\ pc = "classified"
  /\ CollItems("slack") = Repeat(mHigh, 10) \o <<mFull>>
  /\ Len(risks) >= 11
  /\ risks[11].impact = Str(<<"C","r","i","t","i","c","a","l">>)
  /\ Len(data.risks) = 10
  /\ overall = "Amber"

\* nine HIGH chat items followed by a Critical one: the tenth counts, Red
C21_TenthReached ==
  /\ pc = "classified"
  /\ CollItems("slack") = Repeat(mHigh, 9) \o <<mFull>>
  /\ overall = "Red"

\* ten HIGH chat items and a critical opportunity behind them: Amber
C21_CrmEleventhReached ==
  /\ pc = "classified"
  /\ CollItems("slack") = Repeat(mHigh, 10)
  /\ CollItems("salesforce") = <<oCrit>>
  /\ overall = "Amber"

\* the days the clock can show
Days == {Day(i) : i \in 0..MaxTicks}

\* the ISO date and the displayed date denote the same calendar day
SameCalendarDay(iso, display) ==
  \E day \in Days : iso = Str(dateStamp(day)) /\ display = Str(toLocaleDateString(day))

\* the date a slide shows, for the slides that show it: the cover line and
\* subtitle, the Teams subtitle and the second cell of every action row
ShowsDate(k, display) ==
  /\ k = 1 => /\ slides[1].body.date = display
              /\ EndsWith(slides[1].subtitle.s, ToChars(display))
  /\ k = 3 => EndsWith(slides[3].subtitle.s, ToChars(display))
  /\ k = 4 => \A r \in 2..Len(slides[4].body.rows) : slides[4].body.rows[r][2] = display

\* C22: within one run the date shown on the cover, in the Teams subtitle
\* and in every Action Items row is one and the same value, and the ISO date
\* in the output file name denotes the same calendar day as that displayed
\* date.
C22_OneRunDate ==
  pc \notin {"pure", "applied"} =>
    /\ \A k \in 1..Len(slides) : ShowsDate(k, reportDateDisplay)
    /\ outputName # Undefined =>
         /\ EndsWith(outputName.s, ToChars(reportDate) \o <<".","p","p","t","x">>)
         /\ SameCalendarDay(reportDate, reportDateDisplay)

\* the part of C22 that does not depend on the two clock reads agreeing: one
\* displayed date on every slide, and the file name carries the ISO date read
\* first
C22_DisplayedDateIsOne ==
  pc \notin {"pure", "applied"} =>
    /\ \A k \in 1..Len(slides) : ShowsDate(k, reportDateDisplay)
    /\ outputName # Undefined =>
         EndsWith(outputName.s, ToChars(reportDate) \o <<".","p","p","t","x">>)

\* midnight passed between the two clock reads: the file is named for 31
\* December 2025 and every slide says 1 Jan 2026
C22_MidnightReached ==
  /\ pc = "done"
  /\ reportDate = Str(<<"2","0","2","5","-","1","2","-","3","1">>)
  /\ reportDateDisplay = Str(<<"1"," ","J","a","n"," ","2","0","2","6">>)
  /\ Len(data.actions) > 0
  /\ slides[4].body.rows[2][2] = reportDateDisplay

====
